---- MODULE Spec2Model ----
(***************************************************************************)
(* Model of s3safe (github.com/jkaninda/s3safe): backup of a local file    *)
(* tree to an S3 bucket and restore from it, with optional tar.gz          *)
(* compression.  Strings are sequences of one-character strings, so that   *)
(* the path arithmetic of the code (filepath.Join, Base, Dir, Rel,         *)
(* prefix tests) is computed the way the code computes it.                 *)
(***************************************************************************)
EXTENDS Integers, Sequences, FiniteSets, TLC

----------------------------------------------------------------------------
(* Strings and package path/filepath (Unix).                               *)

\* Characters of the model in byte order ('-' < '.' < '/' < digits < letters).
Alphabet == <<"-", ".", "/", "0", "1", "2", "?", "a", "b", "c", "d", "e", "f", "g",
              "h", "i", "j", "k", "l", "m", "n", "o", "p", "q", "r", "s", "t",
              "u", "v", "w", "x", "y", "z">>

CharOrd(c) == CHOOSE i \in 1..Len(Alphabet) : Alphabet[i] = c

RECURSIVE StrLess(_, _)
\* Byte-wise lexicographic order on strings (the order S3 lists keys in and
\* the order os.ReadDir / filepath.Walk sort names in).
StrLess(a, b) ==
    IF b = <<>> THEN FALSE
    ELSE IF a = <<>> THEN TRUE
    ELSE IF Head(a) = Head(b) THEN StrLess(Tail(a), Tail(b))
    ELSE CharOrd(Head(a)) < CharOrd(Head(b))

HasPrefix(s, p) == Len(s) >= Len(p) /\ SubSeq(s, 1, Len(p)) = p

HasSuffix(s, p) == Len(s) >= Len(p) /\ SubSeq(s, Len(s) - Len(p) + 1, Len(s)) = p

TrimSuffix(s, p) == IF HasSuffix(s, p) THEN SubSeq(s, 1, Len(s) - Len(p)) ELSE s

RECURSIVE SortStrings(_)
\* The strings of a finite set in increasing byte order.
SortStrings(S) ==
    IF S = {} THEN <<>>
    ELSE LET m == CHOOSE x \in S : \A y \in S \ {x} : StrLess(x, y)
         IN  <<m>> \o SortStrings(S \ {m})

RECURSIVE Split(_)
\* The '/'-separated segments of a string (empty segments included).
Split(s) ==
    IF \A i \in 1..Len(s) : s[i] # "/" THEN <<s>>
    ELSE LET i == CHOOSE k \in 1..Len(s) : s[k] = "/" /\ \A j \in 1..(k-1) : s[j] # "/"
         IN  <<SubSeq(s, 1, i - 1)>> \o Split(SubSeq(s, i + 1, Len(s)))

RECURSIVE JoinSegs(_)
JoinSegs(segs) ==
    IF segs = <<>> THEN <<>>
    ELSE IF Len(segs) = 1 THEN segs[1]
    ELSE segs[1] \o <<"/">> \o JoinSegs(Tail(segs))

RECURSIVE CleanSegs(_, _, _)
\* The segment stack of filepath.Clean: "" and "." are dropped, ".." pops a
\* segment, or is kept in front of a relative path that has nothing to pop.
CleanSegs(segs, out, rooted) ==
    IF segs = <<>> THEN out
    ELSE LET h == Head(segs) IN
         IF h = <<>> \/ h = <<".">> THEN CleanSegs(Tail(segs), out, rooted)
         ELSE IF h = <<".", ".">> THEN
              IF out # <<>> /\ out[Len(out)] # <<".", ".">>
              THEN CleanSegs(Tail(segs), SubSeq(out, 1, Len(out) - 1), rooted)
              ELSE IF rooted THEN CleanSegs(Tail(segs), out, rooted)
              ELSE CleanSegs(Tail(segs), Append(out, h), rooted)
         ELSE CleanSegs(Tail(segs), Append(out, h), rooted)

\* filepath.Clean
Clean(p) ==
    IF p = <<>> THEN <<".">>
    ELSE LET rooted == p[1] = "/"
             body   == JoinSegs(CleanSegs(Split(p), <<>>, rooted))
         IN  IF rooted THEN <<"/">> \o body
             ELSE IF body = <<>> THEN <<".">> ELSE body

\* filepath.Join of two elements: empty elements are ignored, the rest is
\* joined with '/' and cleaned.
Join(a, b) ==
    IF a = <<>> /\ b = <<>> THEN <<>>
    ELSE IF a = <<>> THEN Clean(b)
    ELSE IF b = <<>> THEN Clean(a)
    ELSE Clean(a \o <<"/">> \o b)

RECURSIVE TrimSlashes(_)
TrimSlashes(p) ==
    IF p # <<>> /\ p[Len(p)] = "/" THEN TrimSlashes(SubSeq(p, 1, Len(p) - 1)) ELSE p

\* Index of the last '/' of p, 0 when there is none.
LastSlash(p) ==
    IF \A i \in 1..Len(p) : p[i] # "/" THEN 0
    ELSE CHOOSE i \in 1..Len(p) : p[i] = "/" /\ \A j \in (i+1)..Len(p) : p[j] # "/"

\* filepath.Base
Base(p) ==
    IF p = <<>> THEN <<".">>
    ELSE LET t == TrimSlashes(p) IN
         IF t = <<>> THEN <<"/">>
         ELSE SubSeq(t, LastSlash(t) + 1, Len(t))

\* filepath.Dir
Dir(p) == Clean(SubSeq(p, 1, LastSlash(p)))

\* filepath.Rel(base, targ) for a target at or below base (the only use the
\* walkers make of it); RelErr stands for the error return.
RelErr == <<"?">>

Rel(base, targ) ==
    LET b == Clean(base)
        t == Clean(targ)
    IN  IF b = t THEN <<".">>
        ELSE IF b = <<".">> THEN (IF t[1] = "/" THEN RelErr ELSE t)
        ELSE IF b = <<"/">> /\ t[1] = "/" THEN Tail(t)
        ELSE IF HasPrefix(t, b \o <<"/">>) THEN SubSeq(t, Len(b) + 2, Len(t))
        ELSE RelErr

----------------------------------------------------------------------------
(* File contents, the object store and the local file system.              *)

\* The gzip magic number, the two bytes isCompressed looks for.
GzipMagic == <<31, 139>>

\* A file or object body: its leading bytes, its size in bytes and, for a
\* tar.gz body, the tar entries it carries.
Body(head, size, entries) == [head |-> head, size |-> size, entries |-> entries]

EmptyBody == Body(<<>>, 0, <<>>)

\* A tar entry: header name, type flag and the bytes that follow the header.
TarEntry(name, typeflag, data) == [name |-> name, typeflag |-> typeflag, data |-> data]

\* The body the gzip and tar writers produce for a sequence of entries.
ArchiveBody(entries) == Body(GzipMagic, 2 + Len(entries), entries)

\* A node of the local file system.
FileNode(body) == [isDir |-> FALSE, data |-> body]
DirNode == [isDir |-> TRUE, data |-> EmptyBody]

\* The working directory of the process.
Cwd == <<"/", "w">>

\* filepath.Abs: a relative path is joined to the working directory.
Abs(p) == IF p # <<>> /\ p[1] = "/" THEN Clean(p) ELSE Join(Cwd, p)

\* The proper ancestors of an absolute cleaned path, the root excepted.
Ancestors(p) ==
    {SubSeq(p, 1, i - 1) : i \in {k \in 2..Len(p) : p[k] = "/"}}

\* os.Stat succeeds (the file system is keyed by absolute path; the root
\* always exists).
Exists(f, p) == Abs(p) \in DOMAIN f \/ Abs(p) = <<"/">>

IsDirAt(f, p) == Abs(p) = <<"/">> \/ (Abs(p) \in DOMAIN f /\ f[Abs(p)].isDir)

IsFileAt(f, p) == Abs(p) \in DOMAIN f /\ ~f[Abs(p)].isDir

\* os.MkdirAll succeeds unless the path or one of its ancestors is a file.
MkdirAllOk(f, p) ==
    \A q \in Ancestors(Abs(p)) \cup {Abs(p)} : q \in DOMAIN f => f[q].isDir

MkdirAll(f, p) ==
    LET new == {q \in Ancestors(Abs(p)) \cup {Abs(p)} : q \notin DOMAIN f /\ q # <<"/">>}
    IN  [q \in DOMAIN f \cup new |-> IF q \in DOMAIN f THEN f[q] ELSE DirNode]

\* os.Create succeeds: the parent directory exists and the path itself is not
\* a directory.
CreateOk(f, p) == IsDirAt(f, Dir(Abs(p))) /\ ~IsDirAt(f, p)

\* The file system after p was created (truncated) and body written to it.
WriteFile(f, p, body) ==
    [q \in DOMAIN f \cup {Abs(p)} |-> IF q = Abs(p) THEN FileNode(body) ELSE f[q]]

\* os.ReadDir: the names of the entries of dir, sorted by file name; bad is
\* the set of directories that cannot be read.
ReadDirOk(f, bad, dir) == IsDirAt(f, dir) /\ Abs(dir) \notin bad

ReadDir(f, dir) ==
    SortStrings({Base(q) : q \in {x \in DOMAIN f : x # Abs(dir) /\ Dir(x) = Abs(dir)}})

----------------------------------------------------------------------------
(* S3Storage.List and the ListObjectsV2 request it pages through.          *)

\* An Item of a listing.  LastModified is carried by the code but read
\* nowhere, so the model leaves it out.
Item(key, isDir) == [Key |-> key, IsDir |-> isDir]

\* Entries returned per ListObjectsV2 response (MaxKeys of the store).
PageSize == 2

\* The continuation token of the first request (a nil pointer in the code).
NoToken == 0

\* The common prefix the store rolls a key up into when a delimiter is given:
\* the prefix plus the rest of the key up to and including its first '/'.
RollUp(key, prefix) ==
    LET rest == SubSeq(key, Len(prefix) + 1, Len(key))
        i    == CHOOSE k \in 1..Len(rest) : rest[k] = "/" /\ \A j \in 1..(k-1) : rest[j] # "/"
    IN  prefix \o SubSeq(rest, 1, i)

HasDelim(key, prefix) ==
    \E k \in (Len(prefix) + 1)..Len(key) : key[k] = "/"

\* One ListObjectsV2 response: the keys under prefix in byte order, keys
\* holding the delimiter after the prefix rolled up into common prefixes,
\* PageSize entries per page, the token counting the entries already sent.
ListObjectsV2(st, prefix, delimiter, token) ==
    LET keys     == {k \in DOMAIN st : HasPrefix(k, prefix)}
        plain    == IF delimiter THEN {k \in keys : ~HasDelim(k, prefix)} ELSE keys
        rolled   == IF delimiter THEN {RollUp(k, prefix) : k \in {x \in keys : HasDelim(x, prefix)}}
                    ELSE {}
        all      == SortStrings(plain \cup rolled)
        last     == IF token + PageSize < Len(all) THEN token + PageSize ELSE Len(all)
        page     == SubSeq(all, token + 1, last)
    IN  [Contents       |-> SelectSeq(page, LAMBDA k : k \in plain),
         CommonPrefixes |-> SelectSeq(page, LAMBDA k : k \in rolled),
         IsTruncated    |-> last < Len(all),
         NextContinuationToken |-> last]

RECURSIVE ContentItems_KeepMarker(_, _, _)
\* The loop over resp.Contents keeping the key equal to the listed path.
ContentItems_KeepMarker(st, contents, path) ==
    IF contents = <<>> THEN <<>>
    ELSE LET k == Head(contents) IN
         <<Item(k, st[k].size = 0 /\ HasSuffix(k, <<"/">>))>>
         \o ContentItems_KeepMarker(st, Tail(contents), path)

RECURSIVE ContentItems(_, _, _)
\* The loop over resp.Contents: the key equal to the listed path is skipped.
ContentItems(st, contents, path) ==
    IF contents = <<>> THEN <<>>
    ELSE LET k == Head(contents) IN
         IF k = path THEN ContentItems(st, Tail(contents), path)
         ELSE <<Item(k, st[k].size = 0 /\ HasSuffix(k, <<"/">>))>>
              \o ContentItems(st, Tail(contents), path)

PrefixItems(prefixes) == [i \in 1..Len(prefixes) |-> Item(prefixes[i], TRUE)]

\* A listing request as the store sees it.
ListReq(prefix, token, delimiter) == [prefix |-> prefix, token |-> token, delimiter |-> delimiter]

RECURSIVE ListPages_KeepLastPage(_, _, _, _, _, _, _)
\* The pagination loop assigning the items of a page to files where it
\* should append them.
ListPages_KeepLastPage(st, path, recursive, token, files, reqs, failAt) ==
    LET reqs2 == Append(reqs, ListReq(path, token, ~recursive)) IN
    IF Len(reqs2) = failAt THEN [files |-> files, err |-> TRUE, reqs |-> reqs2]
    ELSE LET resp == ListObjectsV2(st, path, ~recursive, token)
             f1   == ContentItems(st, resp.Contents, path)
             f2   == IF ~recursive THEN f1 \o PrefixItems(resp.CommonPrefixes) ELSE f1
         IN  IF ~resp.IsTruncated THEN [files |-> f2, err |-> FALSE, reqs |-> reqs2]
             ELSE ListPages_KeepLastPage(st, path, recursive, resp.NextContinuationToken,
                                         f2, reqs2, failAt)

RECURSIVE ListPages(_, _, _, _, _, _, _)
\* The pagination loop of List.  reqs is the log of the requests sent so far
\* and the request whose number is failAt returns an error.
ListPages(st, path, recursive, token, files, reqs, failAt) ==
    LET reqs2 == Append(reqs, ListReq(path, token, ~recursive)) IN
    IF Len(reqs2) = failAt THEN [files |-> files, err |-> TRUE, reqs |-> reqs2]
    ELSE LET resp == ListObjectsV2(st, path, ~recursive, token)
             f1   == files \o ContentItems(st, resp.Contents, path)
             f2   == IF ~recursive THEN f1 \o PrefixItems(resp.CommonPrefixes) ELSE f1
         IN  IF ~resp.IsTruncated THEN [files |-> f2, err |-> FALSE, reqs |-> reqs2]
             ELSE ListPages(st, path, recursive, resp.NextContinuationToken, f2, reqs2, failAt)

RECURSIVE List(_, _, _, _, _)
RECURSIVE ListSubDirs(_, _, _, _, _, _)
\* The loop of List going on to the next item when the listing of a folder
\* fails, where it should return the error.
ListSubDirs_SkipFailed(st, files, i, subDirs, reqs, failAt) ==
    IF i > Len(files) THEN [files |-> files \o subDirs, err |-> FALSE, reqs |-> reqs]
    ELSE IF files[i].IsDir THEN
         LET sub == List(st, files[i].Key, TRUE, reqs, failAt) IN
         IF sub.err THEN ListSubDirs(st, files, i + 1, subDirs, sub.reqs, failAt)
         ELSE ListSubDirs(st, files, i + 1, subDirs \o sub.files, sub.reqs, failAt)
    ELSE ListSubDirs(st, files, i + 1, subDirs, reqs, failAt)

\* The loop of List over the items found, listing every IsDir item in turn.
ListSubDirs(st, files, i, subDirs, reqs, failAt) ==
    IF i > Len(files) THEN [files |-> files \o subDirs, err |-> FALSE, reqs |-> reqs]
    ELSE IF files[i].IsDir THEN
         LET sub == List(st, files[i].Key, TRUE, reqs, failAt) IN
         IF sub.err THEN [files |-> files, err |-> TRUE, reqs |-> sub.reqs]
         ELSE ListSubDirs(st, files, i + 1, subDirs \o sub.files, sub.reqs, failAt)
    ELSE ListSubDirs(st, files, i + 1, subDirs, reqs, failAt)

\* List with the delimiter never requested: a non-recursive listing gets the
\* flat key space.
List_NoDelimiter(st, path0, recursive, reqs, failAt) ==
    LET path == IF path0 # <<>> /\ ~HasSuffix(path0, <<"/">>) THEN path0 \o <<"/">> ELSE path0
        r    == ListPages(st, path, TRUE, NoToken, <<>>, reqs, failAt)
    IN  IF r.err THEN r
        ELSE IF recursive THEN ListSubDirs(st, r.files, 1, <<>>, r.reqs, failAt)
        ELSE r

\* S3Storage.List
List(st, path0, recursive, reqs, failAt) ==
    LET path == IF path0 # <<>> /\ ~HasSuffix(path0, <<"/">>) THEN path0 \o <<"/">> ELSE path0
        r    == ListPages(st, path, recursive, NoToken, <<>>, reqs, failAt)
    IN  IF r.err THEN r
        ELSE IF recursive THEN ListSubDirs(st, r.files, 1, <<>>, r.reqs, failAt)
        ELSE r

----------------------------------------------------------------------------
(* ListFiles and walkDir.                                                  *)

RECURSIVE walkDir(_, _, _, _, _, _, _)
RECURSIVE WalkEntries(_, _, _, _, _, _, _, _)
RECURSIVE WalkEntries_PostOrder(_, _, _, _, _, _, _, _)
\* The loop of walkDir appending the item of a directory after the items
\* found below it.
WalkEntries_PostOrder(f, bad, root, current, recursive, names, files, reads) ==
    IF names = <<>> THEN [files |-> files, err |-> FALSE, reads |-> reads]
    ELSE LET fullPath == Join(current, Head(names))
             isDir    == f[Abs(fullPath)].isDir
             relPath  == Rel(root, fullPath)
             files2   == Append(files, Item(relPath, isDir))
         IN  IF relPath = RelErr THEN [files |-> files, err |-> TRUE, reads |-> reads]
             ELSE IF recursive /\ isDir THEN
                  LET r == walkDir(f, bad, root, fullPath, recursive, files, reads) IN
                  IF r.err THEN r
                  ELSE WalkEntries_PostOrder(f, bad, root, current, recursive, Tail(names),
                                             Append(r.files, Item(relPath, isDir)), r.reads)
             ELSE WalkEntries_PostOrder(f, bad, root, current, recursive, Tail(names),
                                        files2, reads)

\* The loop of walkDir over the entries of one directory.
WalkEntries(f, bad, root, current, recursive, names, files, reads) ==
    IF names = <<>> THEN [files |-> files, err |-> FALSE, reads |-> reads]
    ELSE LET fullPath == Join(current, Head(names))
             isDir    == f[Abs(fullPath)].isDir
             relPath  == Rel(root, fullPath)
             files2   == Append(files, Item(relPath, isDir))
         IN  IF relPath = RelErr THEN [files |-> files, err |-> TRUE, reads |-> reads]
             ELSE IF recursive /\ isDir THEN
                  LET r == walkDir(f, bad, root, fullPath, recursive, files2, reads) IN
                  IF r.err THEN r
                  ELSE WalkEntries(f, bad, root, current, recursive, Tail(names), r.files, r.reads)
             ELSE WalkEntries(f, bad, root, current, recursive, Tail(names), files2, reads)

\* walkDir; bad is the set of directories os.ReadDir cannot read and reads
\* the log of the directories read so far.
walkDir(f, bad, root, current, recursive, files, reads) ==
    IF ~ReadDirOk(f, bad, current)
    THEN [files |-> files, err |-> TRUE, reads |-> Append(reads, current)]
    ELSE WalkEntries(f, bad, root, current, recursive, ReadDir(f, current), files,
                     Append(reads, current))

ListFiles(f, bad, path, recursive) == walkDir(f, bad, path, path, recursive, <<>>, <<>>)

----------------------------------------------------------------------------
(* compressDirectory, decompressDirectory and isCompressed.                *)

RECURSIVE TarWalk(_, _, _, _)
RECURSIVE TarWalkNames(_, _, _, _, _)
\* filepath.Walk below one directory: its names in sorted order.
TarWalkNames(f, sourceDir, path, names, absOutputFile) ==
    IF names = <<>> THEN <<>>
    ELSE TarWalk(f, sourceDir, Join(path, Head(names)), absOutputFile)
         \o TarWalkNames(f, sourceDir, path, Tail(names), absOutputFile)

\* filepath.Walk with a callback that does not skip the output file.
TarWalk_NoSkip(f, sourceDir, path, absOutputFile) ==
    IF IsDirAt(f, path)
    THEN TarWalkNames(f, sourceDir, path, ReadDir(f, path), absOutputFile)
    ELSE <<TarEntry(Rel(sourceDir, path), "reg", f[Abs(path)].data)>>

\* filepath.Walk with the callback of compressDirectory: the output file is
\* skipped, a directory writes nothing and is descended into, any other
\* entry becomes a tar entry named by its path relative to sourceDir.
TarWalk(f, sourceDir, path, absOutputFile) ==
    IF Abs(path) = absOutputFile THEN <<>>
    ELSE IF IsDirAt(f, path)
         THEN TarWalkNames(f, sourceDir, path, ReadDir(f, path), absOutputFile)
         ELSE <<TarEntry(Rel(sourceDir, path), "reg", f[Abs(path)].data)>>

\* What the output file holds when a deferred Close of the tar writer, the
\* gzip writer or the file fails: the bytes still buffered are lost, here
\* the last entry, or the whole stream when nothing was flushed before.
CutShort(entries) ==
    IF entries = <<>> THEN EmptyBody ELSE ArchiveBody(SubSeq(entries, 1, Len(entries) - 1))

\* compressDirectory.  fault names the step that the system fails: "create"
\* (os.Create of the output), "read" (os.Open of a source file), "write"
\* (tw.WriteHeader or io.Copy), "close" (one of the deferred Close calls,
\* whose error is logged and not returned) or "none".
compressDirectory(f, sourceDir, outputFile, fault) ==
    LET absOutputFile == Abs(outputFile) IN
    IF fault = "create" \/ ~CreateOk(f, absOutputFile)
    THEN [fs |-> f, err |-> TRUE, closeErr |-> FALSE]
    ELSE LET f1      == WriteFile(f, absOutputFile, EmptyBody)
             entries == TarWalk(f1, sourceDir, sourceDir, absOutputFile)
         IN  IF ~Exists(f1, sourceDir) \/ (fault \in {"read", "write"} /\ entries # <<>>)
             THEN [fs |-> WriteFile(f1, absOutputFile, ArchiveBody(<<>>)), err |-> TRUE,
                   closeErr |-> FALSE]
             ELSE IF fault = "close"
             THEN [fs |-> WriteFile(f1, absOutputFile, CutShort(entries)), err |-> FALSE,
                   closeErr |-> TRUE]
             ELSE [fs |-> WriteFile(f1, absOutputFile, ArchiveBody(entries)), err |-> FALSE,
                   closeErr |-> FALSE]

\* The steps of compressDirectory that the system can fail.
CompressFaults == {"none", "create", "read", "write", "close"}

RECURSIVE Untar(_, _, _)
\* The loop of decompressDirectory over the tar entries, in archive order.
Untar(f, entries, destDir) ==
    IF entries = <<>> THEN [fs |-> f, err |-> FALSE, unsupported |-> FALSE]
    ELSE LET header == Head(entries)
             target == Join(destDir, header.name)
         IN  IF header.typeflag = "dir" THEN
                 IF MkdirAllOk(f, target)
                 THEN Untar(MkdirAll(f, target), Tail(entries), destDir)
                 ELSE [fs |-> f, err |-> TRUE, unsupported |-> FALSE]
             ELSE IF header.typeflag = "reg" THEN
                 IF CreateOk(f, target)
                 THEN Untar(WriteFile(f, target, header.data), Tail(entries), destDir)
                 ELSE [fs |-> f, err |-> TRUE, unsupported |-> FALSE]
             ELSE [fs |-> f, err |-> TRUE, unsupported |-> TRUE]

\* decompressDirectory
decompressDirectory(f, sourceFile, destDir) ==
    IF ~IsFileAt(f, sourceFile) \/ f[Abs(sourceFile)].data.head # GzipMagic
    THEN [fs |-> f, err |-> TRUE, unsupported |-> FALSE]
    ELSE Untar(f, f[Abs(sourceFile)].data.entries, destDir)

\* isCompressed comparing only the first byte of the buffer.
isCompressed_FirstByte(f, filePath) ==
    /\ IsFileAt(f, filePath)
    /\ f[Abs(filePath)].data.head # <<>>
    /\ f[Abs(filePath)].data.head[1] = GzipMagic[1]

\* isCompressed: false when the file cannot be opened (it is missing) or
\* read (it is a directory, or empty: Read returns io.EOF), else whether the
\* first two bytes of the zero-filled buffer are the gzip magic number.
isCompressed(f, filePath) ==
    /\ IsFileAt(f, filePath)
    /\ f[Abs(filePath)].data.head # <<>>
    /\ LET head == f[Abs(filePath)].data.head
           buf  == [i \in 1..2 |-> IF i <= Len(head) THEN head[i] ELSE 0]
       IN  buf = GzipMagic

\* The timestamp the clock yields, in place of "2006-01-02_15-04-05".
TimeStamp(now) == <<Alphabet[CharOrd("0") + now]>>

TarGz == <<".", "t", "a", "r", ".", "g", "z">>

\* BackupManager.generateOutputFilename
generateOutputFilename(c, now) ==
    LET baseName == Base(c.Path) IN
    IF ~c.Timestamp THEN Join(c.Path, baseName \o TarGz)
    ELSE Join(c.Path, baseName \o <<"-">> \o TimeStamp(now) \o TarGz)

----------------------------------------------------------------------------
(* Config.processPaths, Upload, Download and the per-item handlers.        *)

\* An entry of the call log: the call, the object key, the local path and
\* how the call ended.
Ev(ev, key, path, st) == [ev |-> ev, key |-> key, path |-> path, st |-> st]

\* processPaths removing every trailing '/' (strings.TrimRight).
processPaths_TrimAll(c) ==
    LET path == TrimSlashes(c.Path)
        dest == TrimSlashes(c.Dest)
    IN  IF c.File # <<>> /\ c.File # <<".">>
        THEN [c EXCEPT !.Path = Join(path, Dir(c.File)), !.Dest = dest, !.File = Base(c.File)]
        ELSE [c EXCEPT !.Path = path, !.Dest = dest]

\* Config.processPaths on the flag values path, dest and file.
processPaths(c) ==
    LET path == TrimSuffix(c.Path, <<"/">>)
        dest == TrimSuffix(c.Dest, <<"/">>)
    IN  IF c.File # <<>> /\ c.File # <<".">>
        THEN [c EXCEPT !.Path = Join(path, Dir(c.File)), !.Dest = dest, !.File = Base(c.File)]
        ELSE [c EXCEPT !.Path = path, !.Dest = dest]

\* S3Storage.Upload.  putOk is whether the store accepts the PutObject.
Upload(f, st, path, target, putOk) ==
    IF ~IsFileAt(f, path)
    THEN [store |-> st, err |-> TRUE, evs |-> <<Ev("upload", target, path, "err")>>]
    ELSE IF putOk
    THEN [store |-> [k \in DOMAIN st \cup {target} |->
                        IF k = target THEN f[Abs(path)].data ELSE st[k]],
          err   |-> FALSE,
          evs   |-> <<Ev("put", target, path, "ok"), Ev("upload", target, path, "ok")>>]
    ELSE [store |-> st, err |-> TRUE,
          evs   |-> <<Ev("put", target, path, "err"), Ev("upload", target, path, "err")>>]

\* What a call of Download found at dest and left there.
DlRecord(key, dest, force, existed, pre, post, got, err) ==
    [called |-> TRUE, key |-> key, dest |-> dest, force |-> force, existed |-> existed,
     pre |-> pre, post |-> post, got |-> got, err |-> err]

NoDl ==
    [called |-> FALSE, key |-> <<>>, dest |-> <<>>, force |-> FALSE, existed |-> FALSE,
     pre |-> EmptyBody, post |-> EmptyBody, got |-> FALSE, err |-> FALSE]

BodyAt(f, p) == IF IsFileAt(f, p) THEN f[Abs(p)].data ELSE EmptyBody

\* Download without the check for an existing destination.
Download_NoSkip(f, st, path, dest, force, getOk) ==
    LET destPath == Dir(dest)
        f1       == IF ~Exists(f, destPath) /\ MkdirAllOk(f, destPath) THEN MkdirAll(f, destPath) ELSE f
        f2       == WriteFile(f1, dest, EmptyBody)
        served   == getOk /\ path \in DOMAIN st
        f3       == IF served THEN WriteFile(f2, dest, st[path]) ELSE f2
    IN  IF ~CreateOk(f1, dest)
        THEN [fs |-> f1, err |-> TRUE,
              dl |-> DlRecord(path, dest, force, Exists(f, dest), BodyAt(f, dest), BodyAt(f1, dest), FALSE, TRUE),
              evs |-> <<Ev("download", path, dest, "err")>>]
        ELSE [fs |-> f3, err |-> ~served,
              dl |-> DlRecord(path, dest, force, Exists(f, dest), BodyAt(f, dest), BodyAt(f3, dest), TRUE, ~served),
              evs |-> <<Ev("get", path, dest, IF served THEN "ok" ELSE "err"),
                        Ev("download", path, dest, IF served THEN "ok" ELSE "err")>>]

\* S3Storage.Download.  getOk is whether the store serves the GetObject; a
\* key the bucket does not hold is never served.
Download(f, st, path, dest, force, getOk) ==
    LET destPath == Dir(dest)
        mk       == ~Exists(f, destPath)
        f1       == IF mk /\ MkdirAllOk(f, destPath) THEN MkdirAll(f, destPath) ELSE f
        f2       == WriteFile(f1, dest, EmptyBody)
        served   == getOk /\ path \in DOMAIN st
        f3       == IF served THEN WriteFile(f2, dest, st[path]) ELSE f2
        rec(ff, got, err) ==
            DlRecord(path, dest, force, Exists(f, dest), BodyAt(f, dest), BodyAt(ff, dest), got, err)
    IN  IF mk /\ ~MkdirAllOk(f, destPath)
        THEN [fs |-> f, err |-> TRUE, dl |-> rec(f, FALSE, TRUE),
              evs |-> <<Ev("download", path, dest, "err")>>]
        ELSE IF ~force /\ Exists(f1, dest)
        THEN [fs |-> f1, err |-> FALSE, dl |-> rec(f1, FALSE, FALSE),
              evs |-> <<Ev("download", path, dest, "ok")>>]
        ELSE IF ~CreateOk(f1, dest)
        THEN [fs |-> f1, err |-> TRUE, dl |-> rec(f1, FALSE, TRUE),
              evs |-> <<Ev("download", path, dest, "err")>>]
        ELSE [fs |-> f3, err |-> ~served, dl |-> rec(f3, TRUE, ~served),
              evs |-> <<Ev("get", path, dest, IF served THEN "ok" ELSE "err"),
                        Ev("download", path, dest, IF served THEN "ok" ELSE "err")>>]

\* removePrefix
removePrefix(filePath, prefix) ==
    IF Len(filePath) < Len(prefix) THEN filePath
    ELSE IF SubSeq(filePath, 1, Len(prefix)) = prefix
    THEN SubSeq(filePath, Len(prefix) + 1, Len(filePath))
    ELSE filePath

\* The log entry of a decompressDirectory call.
DecompressEv(key, path, r) ==
    Ev("decompress", key, path, IF r.unsupported THEN "unsupported" ELSE IF r.err THEN "err" ELSE "ok")

\* processFileForUpload without the exclusion test.
processFileForUpload_NoExclude(c, f, st, file, putOk) ==
    IF file.IsDir THEN [store |-> st, err |-> FALSE, evs |-> <<>>]
    ELSE Upload(f, st, Join(c.Path, file.Key), Join(c.Dest, file.Key), putOk)

\* processFileForUpload naming the object by the base name of the file.
processFileForUpload_BaseKey(c, f, st, file, putOk) ==
    IF Base(file.Key) \in c.Exclude THEN [store |-> st, err |-> FALSE, evs |-> <<>>]
    ELSE IF file.IsDir THEN [store |-> st, err |-> FALSE, evs |-> <<>>]
    ELSE Upload(f, st, Join(c.Path, file.Key), Join(c.Dest, Base(file.Key)), putOk)

\* BackupManager.processFileForUpload
processFileForUpload(c, f, st, file, putOk) ==
    IF Base(file.Key) \in c.Exclude THEN [store |-> st, err |-> FALSE, evs |-> <<>>]
    ELSE IF file.IsDir THEN [store |-> st, err |-> FALSE, evs |-> <<>>]
    ELSE Upload(f, st, Join(c.Path, file.Key), Join(c.Dest, file.Key), putOk)

\* RestoreManager.processFileForDownload
processFileForDownload(c, f, st, file, getOk) ==
    IF Base(file.Key) \in c.Exclude THEN [fs |-> f, err |-> FALSE, evs |-> <<>>, dl |-> NoDl]
    ELSE IF file.IsDir THEN [fs |-> f, err |-> FALSE, evs |-> <<>>, dl |-> NoDl]
    ELSE LET destPath == Join(c.Dest, removePrefix(file.Key, c.Path))
             \* after decompressDirectory returned r
             Decompressed(d, r) ==
                 [fs  |-> r.fs,
                  err |-> r.err /\ ~c.IgnoreErrors,
                  evs |-> d.evs \o <<DecompressEv(file.Key, destPath, r)>>,
                  dl  |-> d.dl]
             \* after Download returned d
             Downloaded(d) ==
                 IF d.err THEN d
                 ELSE IF c.Decompress /\ isCompressed(d.fs, destPath)
                 THEN Decompressed(d, decompressDirectory(d.fs, destPath, c.Dest))
                 ELSE d
         IN  Downloaded(Download(f, st, file.Key, destPath, c.Force, getOk))

\* restoreSingleFile dropping a decompression error when ignore-errors is
\* set, as the loop of restoreMultipleFiles does.
restoreSingleFile_IgnoreErrors(c, f, st, getOk) ==
    LET sourcePath == Join(c.Path, c.File)
        destPath   == Join(c.Dest, c.File)
        \* after decompressDirectory returned r
        Decompressed(d, r) ==
            [fs  |-> r.fs, err |-> r.err /\ ~c.IgnoreErrors,
             evs |-> d.evs \o <<DecompressEv(sourcePath, destPath, r)>>,
             dl  |-> d.dl]
        \* after Download returned d
        Downloaded(d) ==
            IF d.err THEN d
            ELSE IF c.Decompress /\ isCompressed(d.fs, destPath)
            THEN Decompressed(d, decompressDirectory(d.fs, destPath, c.Dest))
            ELSE d
    IN  Downloaded(Download(f, st, sourcePath, destPath, c.Force, getOk))

\* RestoreManager.restoreSingleFile
restoreSingleFile(c, f, st, getOk) ==
    LET sourcePath == Join(c.Path, c.File)
        destPath   == Join(c.Dest, c.File)
        \* after decompressDirectory returned r
        Decompressed(d, r) ==
            [fs  |-> r.fs, err |-> r.err,
             evs |-> d.evs \o <<DecompressEv(sourcePath, destPath, r)>>,
             dl  |-> d.dl]
        \* after Download returned d
        Downloaded(d) ==
            IF d.err THEN d
            ELSE IF c.Decompress /\ isCompressed(d.fs, destPath)
            THEN Decompressed(d, decompressDirectory(d.fs, destPath, c.Dest))
            ELSE d
    IN  Downloaded(Download(f, st, sourcePath, destPath, c.Force, getOk))

\* BackupManager.uploadSingleFile
uploadSingleFile(c, f, st, putOk) ==
    Upload(f, st, Join(c.Path, c.File), Join(c.Dest, c.File), putOk)

\* backupWithCompression naming the object by the whole output path.
backupWithCompression_FullPathKey(c, f, st, clock, fault, putOk) ==
    LET outputFile == generateOutputFilename(c, clock)
        \* the error of a deferred Close, logged by compressDirectory
        closed(z) == IF z.closeErr THEN <<Ev("close", <<>>, outputFile, "err")>> ELSE <<>>
        \* after Upload returned u
        Uploaded(z, u) ==
            [fs |-> z.fs, store |-> u.store, err |-> u.err,
             evs |-> closed(z) \o <<Ev("compress", <<>>, outputFile, "ok")>> \o u.evs]
        \* after compressDirectory returned z
        Compressed(z) ==
            IF z.err
            THEN [fs |-> z.fs, store |-> st, err |-> TRUE,
                  evs |-> <<Ev("compress", <<>>, outputFile, "err")>>]
            ELSE Uploaded(z, Upload(z.fs, st, outputFile, Join(c.Dest, outputFile), putOk))
    IN  Compressed(compressDirectory(f, c.Path, outputFile, fault))

\* BackupManager.backupWithCompression
backupWithCompression(c, f, st, clock, fault, putOk) ==
    LET outputFile == generateOutputFilename(c, clock)
        \* the error of a deferred Close, logged by compressDirectory
        closed(z) == IF z.closeErr THEN <<Ev("close", <<>>, outputFile, "err")>> ELSE <<>>
        \* after Upload returned u
        Uploaded(z, u) ==
            [fs |-> z.fs, store |-> u.store, err |-> u.err,
             evs |-> closed(z) \o <<Ev("compress", <<>>, outputFile, "ok")>> \o u.evs]
        \* after compressDirectory returned z
        Compressed(z) ==
            IF z.err
            THEN [fs |-> z.fs, store |-> st, err |-> TRUE,
                  evs |-> <<Ev("compress", <<>>, outputFile, "err")>>]
            ELSE Uploaded(z, Upload(z.fs, st, outputFile, Join(c.Dest, Base(outputFile)), putOk))
    IN  Compressed(compressDirectory(f, c.Path, outputFile, fault))

----------------------------------------------------------------------------
(* State.                                                                  *)

VARIABLES
    stack,    \* the frames of the calls of List in progress, outermost first
    raw,      \* the values of the flags --path, --dest and --file
    cfg,      \* the Config of the invocation, as NewConfig leaves it
    fs,       \* the local file system: path -> node
    bad,      \* the local directories that cannot be read
    store,    \* the bucket: key -> body
    op,       \* the entry point that runs
    pc,       \* its position
    files,    \* the items enumerated by ListFiles / List
    idx,      \* the position of the transfer loop in files
    result,   \* "none" while running, then "ok" or "err"
    listReqs, \* the ListObjectsV2 requests sent, in order
    log,      \* the calls made so far, in order
    lastDl,   \* what the latest call of S3Storage.Download found and left
    now       \* the clock read by generateOutputFilename

vars == <<stack, raw, cfg, fs, bad, store, op, pc, files, idx, result, listReqs, log,
          lastDl, now>>

\* The flag values as the command line gives them.
Flags(path, dest, file) == [Path |-> path, Dest |-> dest, File |-> file]

Config(path, dest, file, recursive) ==
    [Path |-> path, Dest |-> dest, File |-> file, Compress |-> FALSE,
     Decompress |-> FALSE, Timestamp |-> FALSE, IgnoreErrors |-> FALSE,
     Recursive |-> recursive, Force |-> FALSE, Exclude |-> {<<>>}]

\* The file system holding the working directory, the directories dirs, the
\* files of DOMAIN bodies (paths relative to the working directory) and
\* every ancestor directory of them.
MkFs(dirs, bodies) ==
    LET fl == {Abs(p) : p \in DOMAIN bodies}
        d0 == {Abs(p) : p \in dirs} \cup {Cwd}
        ds == d0 \cup UNION {Ancestors(p) : p \in d0 \cup fl}
    IN  [q \in ds \cup fl |->
            IF q \in fl THEN FileNode(bodies[CHOOSE p \in DOMAIN bodies : Abs(p) = q])
            ELSE DirNode]

EmptyStore == [k \in {} |-> EmptyBody]

\* Subsets of S with at most n elements.
SubsetsUpTo(S, n) == {T \in SUBSET S : Cardinality(T) <= n}

----------------------------------------------------------------------------
(* The listing functions on their own: List and ListFiles applied to        *)
(* bounded stores, trees and prefixes.                                     *)

MaxObjects == 4
MaxFiles == 3
MaxListFail == 2

\* Keys of the listing experiments: the marker of the prefix itself, plain
\* objects, directory markers nested in one another, an object outside.
ListKeys ==
    { <<"p", "/">>, <<"p", "/", "a">>, <<"p", "/", "d", "/">>,
      <<"p", "/", "d", "/", "x">>, <<"p", "/", "d", "/", "e", "/">>,
      <<"p", "/", "d", "/", "e", "/", "y">>, <<"p", "/", "z">>, <<"q">> }

\* Keys ending in '/' are zero-size markers, <<"p","/","z">> is an empty
\* object, the others hold one byte.
ListBody(k) ==
    IF HasSuffix(k, <<"/">>) \/ k = <<"p", "/", "z">> THEN EmptyBody ELSE Body(<<97>>, 1, <<>>)

ListPrefixes == { <<>>, <<"p">>, <<"p", "/">>, <<"p", "/", "d">> }

\* Local entries of the listing experiments, below the root directory d.
LocalFilePaths ==
    { <<"d", "/", "a">>, <<"d", "/", "b">>, <<"d", "/", "s", "/", "b">>,
      <<"d", "/", "s", "/", "t", "/", "c">> }

LocalDirPaths == { <<"d">>, <<"d", "/", "s">>, <<"d", "/", "e">> }

LocalRoots == { <<"d">>, <<"d", "/">>, <<"d", "/", "s">> }

PlainBody(p) == Body(<<CharOrd(p[Len(p)])>>, 1, <<>>)

InitList ==
    /\ op \in {"rlist", "llist"}
    /\ \/ /\ op = "rlist"
          /\ \E K \in SubsetsUpTo(ListKeys, MaxObjects) : store = [k \in K |-> ListBody(k)]
          /\ \E p \in ListPrefixes, r \in BOOLEAN :
                cfg = Config(p, <<>>, <<>>, r) /\ raw = Flags(p, <<>>, <<>>)
          /\ fs = MkFs({}, EmptyStore)
       \/ /\ op = "llist"
          /\ store = EmptyStore
          /\ \E F \in SubsetsUpTo(LocalFilePaths, MaxFiles), D \in SUBSET LocalDirPaths :
                fs = MkFs(D, [p \in F |-> PlainBody(p)])
          /\ \E p \in LocalRoots, r \in BOOLEAN :
                cfg = Config(p, <<>>, <<>>, r) /\ raw = Flags(p, <<>>, <<>>)
    /\ bad = {}
    /\ pc = "start"
    /\ files = <<>>
    /\ idx = 0
    /\ result = "none"
    /\ listReqs = <<>>
    /\ log = <<>>
    /\ lastDl = NoDl
    /\ stack = <<>>
    /\ now = 0

\* s3Storage.List(path, recursive) on the store.
RemoteList ==
    /\ op = "rlist" /\ pc = "start"
    /\ \E failAt \in 0..MaxListFail :
        LET r == List(store, cfg.Path, cfg.Recursive, <<>>, failAt) IN
        /\ files' = r.files
        /\ listReqs' = r.reqs
        /\ result' = IF r.err THEN "err" ELSE "ok"
        /\ log' = [i \in 1..Len(r.reqs) |->
                                      Ev("list", r.reqs[i].prefix, <<>>,
                                         IF i = failAt THEN "err" ELSE "ok")]
    /\ pc' = "done"
    /\ UNCHANGED <<stack, raw, cfg, fs, bad, store, op, idx, lastDl, now>>

\* ListFiles(path, recursive) on the local tree.
LocalList ==
    /\ op = "llist" /\ pc = "start"
    /\ \E B \in {{}, {Abs(<<"d", "/", "s">>)}} :
        LET r == ListFiles(fs, B, cfg.Path, cfg.Recursive) IN
        /\ bad' = B
        /\ files' = r.files
        /\ result' = IF r.err THEN "err" ELSE "ok"
        /\ log' = [i \in 1..Len(r.reads) |->
                                Ev("readdir", <<>>, r.reads[i],
                                   IF ReadDirOk(fs, B, r.reads[i]) THEN "ok" ELSE "err")]
    /\ pc' = "done"
    /\ UNCHANGED <<stack, raw, cfg, fs, store, op, idx, listReqs, lastDl, now>>

NextList == RemoteList \/ LocalList

SpecList == InitList /\ [][NextList]_vars

\* Keys of a listing.
KeysOf(items) == {items[i].Key : i \in 1..Len(items)}

NoDup(items) == \A i, j \in 1..Len(items) : items[i].Key = items[j].Key => i = j

\* C1 (as claimed): one recursive remote List call returns each key at most
\* once.
C1_RecursiveListDistinct ==
    (op = "rlist" /\ pc = "done" /\ result = "ok" /\ cfg.Recursive) => NoDup(files)

\* The slash-terminated form List gives its prefix.
SlashTerminated(p) == IF p # <<>> /\ ~HasSuffix(p, <<"/">>) THEN p \o <<"/">> ELSE p

\* The direct children of prefix P in a store: the keys P+name, and P+name+"/"
\* for every key that continues below P+name+"/".
RemoteChildren(st, P) ==
    LET below == {k \in DOMAIN st : HasPrefix(k, P) /\ k # P}
        rest(k) == Split(SubSeq(k, Len(P) + 1, Len(k)))
    IN  {k \in below : Len(rest(k)) = 1}
        \cup {P \o rest(k)[1] \o <<"/">> : k \in {x \in below : Len(rest(x)) > 1}}

\* The names of the entries a local directory holds.
LocalChildren(f, root) == {Base(q) : q \in {x \in DOMAIN f : Dir(x) = Abs(root) /\ x # Abs(root)}}

\* C10: a non-recursive listing, remote or local, holds every direct child of
\* the prefix / root exactly once and nothing from deeper levels.
C10_NonRecursiveDirectChildren ==
    (pc = "done" /\ result = "ok" /\ ~cfg.Recursive) =>
        /\ op = "rlist" =>
            /\ KeysOf(files) = RemoteChildren(store, SlashTerminated(cfg.Path))
            /\ NoDup(files)
        /\ op = "llist" =>
            /\ KeysOf(files) = LocalChildren(fs, cfg.Path)
            /\ NoDup(files)
            /\ \A i \in 1..Len(files) : files[i].IsDir = IsDirAt(fs, Join(cfg.Path, files[i].Key))

\* A non-recursive remote listing that returned entries of a prefix holding
\* keys two levels down.
C10_Witness ==
    /\ op = "rlist" /\ pc = "done" /\ result = "ok" /\ ~cfg.Recursive
    /\ Len(files) >= 2
    /\ \E k \in DOMAIN store :
          /\ HasPrefix(k, SlashTerminated(cfg.Path))
          /\ Len(Split(SubSeq(k, Len(SlashTerminated(cfg.Path)) + 1, Len(k)))) > 2

\* The paths of the entries below a local directory, relative to it.
LocalBelow(f, root) ==
    LET r == Abs(root) IN
    {SubSeq(q, Len(r) + 2, Len(q)) :
        q \in {x \in DOMAIN f : Len(x) > Len(r) + 1 /\ SubSeq(x, 1, Len(r) + 1) = r \o <<"/">>}}

\* Key b names an entry below the directory key a names.
KeyBelow(b, a) == HasPrefix(b, a \o <<"/">>)

\* C23: a recursive ListFiles holds one item for every file and every
\* directory below the root and none for the root, its keys are the paths
\* relative to the root without repetition, IsDir tells directories from
\* files, and the items below a directory follow its item without an item
\* from elsewhere in between.
C23_RecursiveWalkClosure ==
    (op = "llist" /\ pc = "done" /\ result = "ok" /\ cfg.Recursive) =>
        /\ KeysOf(files) = LocalBelow(fs, cfg.Path)
        /\ NoDup(files)
        /\ \A i \in 1..Len(files) : files[i].IsDir = IsDirAt(fs, Abs(cfg.Path) \o <<"/">> \o files[i].Key)
        /\ \A i, j \in 1..Len(files) : KeyBelow(files[j].Key, files[i].Key) => i < j
        /\ \A i, j, k \in 1..Len(files) :
              (i < j /\ j < k /\ KeyBelow(files[k].Key, files[i].Key))
                 => KeyBelow(files[j].Key, files[i].Key)

\* A recursive walk of a tree three levels deep with a file next to the
\* directories.
C23_Witness ==
    /\ op = "llist" /\ pc = "done" /\ result = "ok" /\ cfg.Recursive
    /\ <<"s", "/", "t", "/", "c">> \in KeysOf(files)
    /\ <<"a">> \in KeysOf(files)
    /\ <<"e">> \in KeysOf(files)

\* The response of the store to request n of the log.
Resp(n) == ListObjectsV2(store, listReqs[n].prefix, listReqs[n].delimiter, listReqs[n].token)

\* The entries of the page request n got, in the order of the response
\* (objects, then common prefixes), without the key equal to the prefix.
PageItems(n) ==
    LET r    == Resp(n)
        kept == SelectSeq(r.Contents, LAMBDA k : k # listReqs[n].prefix)
    IN  [i \in 1..Len(kept) |->
            Item(kept[i], store[kept[i]].size = 0 /\ kept[i][Len(kept[i])] = "/")]
        \o [i \in 1..Len(r.CommonPrefixes) |-> Item(r.CommonPrefixes[i], TRUE)]

RECURSIVE ConcatPages(_, _)
ConcatPages(n, m) == IF n > m THEN <<>> ELSE PageItems(n) \o ConcatPages(n + 1, m)

\* The last request of the first listing: the first one whose response is
\* not truncated.
FirstListingEnd ==
    LET ends == {n \in 1..Len(listReqs) : ~Resp(n).IsTruncated}
    IN  IF ends = {} THEN Len(listReqs) ELSE CHOOSE n \in ends : \A k \in ends : n <= k

\* C18: the first request of a listing carries no token and every later
\* one the token of the response before it; a truncated response is always
\* followed by the request for the next page and a complete one never; the
\* items of the listing of one prefix are the entries of its pages, page
\* after page in response order, less the key equal to the prefix.
C18_Pagination ==
    (op = "rlist" /\ pc = "done") =>
        /\ listReqs # <<>> /\ listReqs[1].token = NoToken
        /\ listReqs[1].prefix = SlashTerminated(cfg.Path)
        /\ \A n \in 2..Len(listReqs) :
              IF listReqs[n].token = NoToken
              THEN ~Resp(n - 1).IsTruncated
              ELSE /\ Resp(n - 1).IsTruncated
                   /\ listReqs[n].token = Resp(n - 1).NextContinuationToken
                   /\ listReqs[n].prefix = listReqs[n - 1].prefix
                   /\ listReqs[n].delimiter = listReqs[n - 1].delimiter
        /\ result = "ok" =>
              /\ ~Resp(Len(listReqs)).IsTruncated
              /\ ~cfg.Recursive =>
                    /\ FirstListingEnd = Len(listReqs)
                    /\ files = ConcatPages(1, Len(listReqs))
              /\ cfg.Recursive =>
                    /\ Len(files) >= Len(ConcatPages(1, FirstListingEnd))
                    /\ SubSeq(files, 1, Len(ConcatPages(1, FirstListingEnd)))
                          = ConcatPages(1, FirstListingEnd)

\* A listing of two pages whose first page held the marker of the prefix
\* itself.
C18_Witness ==
    /\ op = "rlist" /\ pc = "done" /\ result = "ok" /\ ~cfg.Recursive
    /\ Len(listReqs) = 2 /\ listReqs[2].token # NoToken
    /\ SlashTerminated(cfg.Path) \in DOMAIN store
    /\ Len(files) = 3

----------------------------------------------------------------------------
(* S3Storage.List call by call: one frame per call of List in progress,    *)
(* one step per ListObjectsV2 request, per turn of the loop over the items *)
(* found and per return.                                                   *)

MaxDepth == 5

\* The frame of a call of List that has sent no request yet.
Frame(path) ==
    [path |-> path, token |-> NoToken, files |-> <<>>, i |-> 1, subDirs |-> <<>>,
     phase |-> "page"]

Top == stack[Len(stack)]

SetTop(fr) == [stack EXCEPT ![Len(stack)] = fr]

InitSteps ==
    /\ op = "rsteps"
    /\ \E K \in SubsetsUpTo(ListKeys, MaxObjects) : store = [k \in K |-> ListBody(k)]
    /\ \E p \in ListPrefixes, r \in BOOLEAN :
          cfg = Config(p, <<>>, <<>>, r) /\ raw = Flags(p, <<>>, <<>>)
    /\ fs = MkFs({}, EmptyStore)
    /\ bad = {}
    /\ pc = "start"
    /\ files = <<>>
    /\ idx = 0
    /\ result = "none"
    /\ listReqs = <<>>
    /\ log = <<>>
    /\ lastDl = NoDl
    /\ stack = <<>>
    /\ now = 0

\* The call s3Storage.List(path, recursive): the path gets its slash.
StepsEnter ==
    /\ op = "rsteps" /\ pc = "start"
    /\ stack' = <<Frame(SlashTerminated(cfg.Path))>>
    /\ pc' = "run"
    /\ UNCHANGED <<raw, cfg, fs, bad, store, op, files, idx, result, listReqs, log, lastDl, now>>

\* One turn of the pagination loop: a request, and its response processed or
\* its error returned through every caller.
StepsPage ==
    /\ op = "rsteps" /\ pc = "run" /\ Top.phase = "page"
    /\ listReqs' = Append(listReqs, ListReq(Top.path, Top.token, ~cfg.Recursive))
    /\ \E ok \in BOOLEAN :
        IF ~ok THEN
            /\ files' = stack[1].files /\ result' = "err" /\ pc' = "done" /\ stack' = <<>>
        ELSE
            \E resp \in {ListObjectsV2(store, Top.path, ~cfg.Recursive, Top.token)} :
            \E f2 \in {Top.files \o ContentItems(store, resp.Contents, Top.path)
                         \o (IF ~cfg.Recursive THEN PrefixItems(resp.CommonPrefixes) ELSE <<>>)} :
            /\ stack' = SetTop([Top EXCEPT !.files = f2,
                                           !.token = resp.NextContinuationToken,
                                           !.phase = IF resp.IsTruncated THEN "page"
                                                     ELSE IF cfg.Recursive THEN "sub"
                                                     ELSE "ret"])
            /\ UNCHANGED <<files, result, pc>>
    /\ UNCHANGED <<raw, cfg, fs, bad, store, op, idx, log, lastDl, now>>

\* The loop over the items found passing an item that is not a folder.
StepsSkip ==
    /\ op = "rsteps" /\ pc = "run" /\ Top.phase = "sub"
    /\ Top.i <= Len(Top.files) /\ ~Top.files[Top.i].IsDir
    /\ stack' = SetTop([Top EXCEPT !.i = @ + 1])
    /\ UNCHANGED <<raw, cfg, fs, bad, store, op, pc, files, idx, result, listReqs, log, lastDl, now>>

\* The loop over the items found calling List on a folder.
StepsDescend ==
    /\ op = "rsteps" /\ pc = "run" /\ Top.phase = "sub"
    /\ Top.i <= Len(Top.files) /\ Top.files[Top.i].IsDir
    /\ Len(stack) < MaxDepth
    /\ stack' = Append(stack, Frame(SlashTerminated(Top.files[Top.i].Key)))
    /\ UNCHANGED <<raw, cfg, fs, bad, store, op, pc, files, idx, result, listReqs, log, lastDl, now>>

\* A call of List returning its items to its caller, which appends them to
\* subDirs and goes on to its next item.
StepsReturn ==
    /\ op = "rsteps" /\ pc = "run"
    /\ Top.phase = "ret" \/ (Top.phase = "sub" /\ Top.i > Len(Top.files))
    /\ \E ret \in {Top.files \o Top.subDirs} :
        IF Len(stack) = 1 THEN
            /\ files' = ret /\ result' = "ok" /\ pc' = "done" /\ stack' = <<>>
        ELSE
            /\ stack' = [n \in 1..(Len(stack) - 1) |->
                            IF n = Len(stack) - 1
                            THEN [stack[n] EXCEPT !.subDirs = @ \o ret, !.i = @ + 1]
                            ELSE stack[n]]
            /\ UNCHANGED <<files, result, pc>>
    /\ UNCHANGED <<raw, cfg, fs, bad, store, op, idx, listReqs, log, lastDl, now>>

NextSteps == StepsEnter \/ StepsPage \/ StepsSkip \/ StepsDescend \/ StepsReturn

\* The calls run in one thread: a step that can be taken is taken.
SpecSteps == InitSteps /\ [][NextSteps]_vars /\ WF_vars(NextSteps)

\* Every call in progress lists a prefix that extends the prefix of its
\* caller by at least one character.
StackPrefixesGrow ==
    \A n \in 2..Len(stack) :
        HasPrefix(stack[n].path, stack[n - 1].path) /\ Len(stack[n].path) > Len(stack[n - 1].path)

\* C21: a recursive List over a finite bucket returns: no call in progress
\* lists the prefix of a call it is nested in, the nesting stays below
\* MaxDepth, and the outermost call ends.
C21_RecursiveListTerminates ==
    /\ [](op = "rsteps" => (StackPrefixesGrow /\ Len(stack) < MaxDepth))
    /\ <>(op = "rsteps" => (pc = "done" /\ stack = <<>>))

\* A recursive List that returned from a bucket holding the marker of
\* the listed prefix and a marker nested in another.
C21_Witness ==
    /\ op = "rsteps" /\ pc = "done" /\ result = "ok" /\ cfg.Recursive
    /\ SlashTerminated(cfg.Path) \in DOMAIN store
    /\ \E n \in 1..Len(listReqs) : listReqs[n].prefix = <<"p", "/", "d", "/", "e", "/">>

----------------------------------------------------------------------------
(* The archive codec on its own: compress a tree, decompress the archive   *)
(* into a destination directory.                                          *)

SrcDir == <<"d">>
OutDir == <<"o">>

\* Destination directories: empty, or already holding subdirectories.
CodecDests ==
    { {OutDir}, {OutDir, Join(OutDir, <<"s">>)},
      {OutDir, Join(OutDir, <<"s", "/", "t">>)} }

\* Files next to the tree for isCompressed to look at: an empty file, a
\* file of the one byte 0x1f, a file that starts 0x1f 0x00 and a file of the
\* two magic bytes that no gzip writer produced.
ProbeDir == <<"t">>

ProbeBodies ==
    (<<"t", "/", "e">> :> EmptyBody) @@ (<<"t", "/", "1">> :> Body(<<31>>, 1, <<>>))
    @@ (<<"t", "/", "x">> :> Body(<<31, 0>>, 3, <<>>)) @@ (<<"t", "/", "g">> :> Body(GzipMagic, 2, <<>>))

\* The paths isCompressed is called with: the probe files, a missing file,
\* a directory, a file of the tree and the archive.
ProbePaths ==
    DOMAIN ProbeBodies \cup {<<"t", "/", "m">>, ProbeDir, <<"d", "/", "a">>}

InitCodec ==
    /\ op = "codec"
    /\ cfg = Config(SrcDir, OutDir, <<>>, TRUE)
    /\ raw = Flags(SrcDir, OutDir, <<>>)
    /\ \E F \in SubsetsUpTo(LocalFilePaths, MaxFiles), D \in SUBSET LocalDirPaths, O \in CodecDests :
          fs = MkFs(D \cup O \cup {SrcDir},
                    [p \in F \cup DOMAIN ProbeBodies |->
                        IF p \in F THEN PlainBody(p) ELSE ProbeBodies[p]])
    /\ store = EmptyStore
    /\ bad = {}
    /\ pc = "start"
    /\ files = <<>>
    /\ idx = 0
    /\ result = "none"
    /\ listReqs = <<>>
    /\ log = <<>>
    /\ lastDl = NoDl
    /\ stack = <<>>
    /\ now = 0

\* compressDirectory(Path, generateOutputFilename())
CodecCompress ==
    /\ op = "codec" /\ pc = "start"
    /\ \E fault \in CompressFaults :
        LET r == compressDirectory(fs, cfg.Path, generateOutputFilename(cfg, now), fault) IN
        /\ fs' = r.fs
        /\ pc' = IF r.err THEN "failed" ELSE IF r.closeErr THEN "cut" ELSE "packed"
        /\ result' = IF r.err THEN "err" ELSE "none"
    /\ UNCHANGED <<stack, raw, cfg, bad, store, op, files, idx, listReqs, log, lastDl, now>>

\* decompressDirectory(archive, Dest)
CodecDecompress ==
    /\ op = "codec" /\ pc = "packed"
    /\ LET r == decompressDirectory(fs, generateOutputFilename(cfg, now), cfg.Dest) IN
        /\ fs' = r.fs
        /\ result' = IF r.err THEN "err" ELSE "ok"
    /\ pc' = "done"
    /\ UNCHANGED <<stack, raw, cfg, bad, store, op, files, idx, listReqs, log, lastDl, now>>

\* One call of isCompressed(p) once compressDirectory has returned; the log
\* keeps the path and the answer.
CodecIsCompressed ==
    /\ op = "codec" /\ pc \in {"packed", "cut", "failed", "done"} /\ idx = 0
    /\ \E p \in ProbePaths \cup {generateOutputFilename(cfg, now)} :
          log' = Append(log, Ev("isCompressed", <<>>, p,
                                IF isCompressed(fs, p) THEN "true" ELSE "false"))
    /\ idx' = 1
    /\ UNCHANGED <<stack, raw, cfg, fs, bad, store, op, pc, files, result, listReqs, lastDl, now>>

NextCodec == CodecCompress \/ CodecDecompress \/ CodecIsCompressed

SpecCodec == InitCodec /\ [][NextCodec]_vars

\* The regular files below dir, as paths relative to dir, the file skip
\* excepted.
FilesBelow(f, dir, skip) ==
    {Rel(Abs(dir), q) : q \in {x \in DOMAIN f : ~f[x].isDir /\ x # Abs(skip)
                                           /\ HasPrefix(x, Abs(dir) \o <<"/">>)}}

\* C2 (as claimed): decompress(compress(D), dest) succeeds and leaves in dest
\* exactly the relative file paths of D, each with the bytes it has in D.
C2_RoundTrip ==
    (op = "codec" /\ pc = "done") =>
        LET out == generateOutputFilename(cfg, now)
            D   == FilesBelow(fs, cfg.Path, out)
        IN  /\ result = "ok"
            /\ FilesBelow(fs, cfg.Dest, out) = D
            /\ \A r \in D : fs[Abs(Join(cfg.Dest, r))].data = fs[Abs(Join(cfg.Path, r))].data

\* C15: isCompressed answers true exactly for an existing regular file of
\* at least two bytes that starts 0x1f 0x8b, so false for a missing file, a
\* directory, an empty file, a one-byte file and a file that starts
\* otherwise; it answers true for the archive compressDirectory wrote, the
\* archive of an empty directory included.
C15_IsCompressedMagic ==
    op = "codec" =>
        \A j \in 1..Len(log) : log[j].ev = "isCompressed" =>
            LET q == Abs(log[j].path) IN
            /\ log[j].st = "true" <=>
                  /\ q \in DOMAIN fs /\ ~fs[q].isDir
                  /\ fs[q].data.size >= 2 /\ Len(fs[q].data.head) >= 2
                  /\ fs[q].data.head[1] = 31 /\ fs[q].data.head[2] = 139
            /\ (pc \in {"packed", "done"} /\ log[j].path = generateOutputFilename(cfg, now))
                  => log[j].st = "true"

\* isCompressed answered true for the archive of a directory without files.
C15_Witness ==
    /\ op = "codec" /\ pc = "packed"
    /\ FilesBelow(fs, cfg.Path, generateOutputFilename(cfg, now)) = {}
    /\ \E j \in 1..Len(log) :
          /\ log[j].ev = "isCompressed" /\ log[j].st = "true"
          /\ log[j].path = generateOutputFilename(cfg, now)

----------------------------------------------------------------------------
(* Config.processPaths on its own: applied to the flag values, and once    *)
(* more to its own result.                                                 *)

MaxPathLen == 3

RECURSIVE StringsUpTo(_, _)
\* The strings over the characters chars of length at most n.
StringsUpTo(chars, n) ==
    IF n = 0 THEN {<<>>}
    ELSE LET shorter == StringsUpTo(chars, n - 1)
         IN  shorter \cup {Append(s, c) : s \in shorter, c \in chars}

\* Values of --path and --dest: every string of 'a' and '/'.
PathInputs == StringsUpTo({"a", "/"}, MaxPathLen)

\* Values of --file: none, ".", a name, names with a directory part.
FileInputs == { <<>>, <<".">>, <<"a">>, <<"s", "/", "a">>, <<".", ".", "/", "a">> }

InitPaths ==
    /\ op = "paths"
    /\ \E path \in PathInputs, dest \in PathInputs, file \in FileInputs :
          /\ raw = Flags(path, dest, file)
          /\ cfg = Config(path, dest, file, FALSE)
    /\ fs = MkFs({}, EmptyStore)
    /\ store = EmptyStore
    /\ bad = {}
    /\ pc = "start"
    /\ files = <<>>
    /\ idx = 0
    /\ result = "none"
    /\ listReqs = <<>>
    /\ log = <<>>
    /\ lastDl = NoDl
    /\ stack = <<>>
    /\ now = 0

\* One call of c.processPaths(); the log keeps the Dest and Path it left.
NormalizePaths ==
    /\ op = "paths" /\ idx < 2
    /\ \E c \in {processPaths(cfg)} :
          /\ cfg' = c
          /\ log' = Append(log, Ev("processPaths", c.Dest, c.Path, "ok"))
    /\ idx' = idx + 1
    /\ pc' = IF idx = 0 THEN "once" ELSE "twice"
    /\ result' = IF idx = 0 THEN "none" ELSE "ok"
    /\ UNCHANGED <<stack, raw, fs, bad, store, op, files, listReqs, lastDl, now>>

NextPaths == NormalizePaths

SpecPaths == InitPaths /\ [][NextPaths]_vars

\* s without one trailing '/', when it has one.
StripOne(s) == IF s # <<>> /\ s[Len(s)] = "/" THEN SubSeq(s, 1, Len(s) - 1) ELSE s

EndsInSlashes(s) == Len(s) >= 2 /\ s[Len(s)] = "/" /\ s[Len(s) - 1] = "/"

NoFile == raw.File \in {<<>>, <<".">>}

\* C11 (as claimed): the normalization of path and dest is idempotent for
\* every input: a second application changes nothing.
C11_NormalizeIdempotent ==
    (op = "paths" /\ pc = "twice") =>
        log[2].path = log[1].path /\ log[2].key = log[1].key

\* C11 (amended): the normalization removes exactly one trailing '/' from
\* dest, and from path when no file is given; a second application changes
\* nothing when the input ends in at most one '/', and removes one more '/'
\* when it ends in several.
C11_StripOneTrailingSlash ==
    (op = "paths" /\ pc \in {"once", "twice"}) =>
        /\ log[1].key = StripOne(raw.Dest)
        /\ NoFile => log[1].path = StripOne(raw.Path)
        /\ pc = "twice" =>
              /\ log[2].key = (IF EndsInSlashes(raw.Dest)
                                THEN StripOne(StripOne(raw.Dest)) ELSE log[1].key)
              /\ NoFile => log[2].path = (IF EndsInSlashes(raw.Path)
                                           THEN StripOne(StripOne(raw.Path)) ELSE log[1].path)

\* Path "a/" and dest "a//" normalized twice: path is "a" both times, dest
\* loses one '/' each time.
C11_Witness ==
    /\ op = "paths" /\ pc = "twice" /\ NoFile
    /\ raw.Path = <<"a", "/">> /\ log[1].path = <<"a">> /\ log[2].path = <<"a">>
    /\ raw.Dest = <<"a", "/", "/">> /\ log[1].key = <<"a", "/">> /\ log[2].key = <<"a">>

----------------------------------------------------------------------------
(* pkg.Backup and pkg.Restore.                                             *)

MaxTree == 3
MaxBucket == 3

\* Bodies of the objects a restore finds in the bucket: plain objects, a
\* directory marker, an archive of one file, an archive of a file in a
\* subdirectory, an archive holding a symbolic link and an archive whose
\* entries are named /y and ../x.
BucketBody(k) ==
    IF k = <<"p", "/", "s", "/">> THEN EmptyBody
    ELSE IF k = <<"p", "/", "k">>
         THEN ArchiveBody(<<TarEntry(<<"a">>, "reg", Body(<<107>>, 1, <<>>))>>)
    ELSE IF k = <<"p", "/", "n">>
         THEN ArchiveBody(<<TarEntry(<<"s", "/", "c">>, "reg", Body(<<110>>, 1, <<>>))>>)
    ELSE IF k = <<"p", "/", "u">>
         THEN ArchiveBody(<<TarEntry(<<"l">>, "sym", EmptyBody)>>)
    ELSE IF k = <<"p", "/", "v">>
         THEN ArchiveBody(<<TarEntry(<<"/", "y">>, "reg", Body(<<121>>, 1, <<>>)),
                            TarEntry(<<".", ".", "/", "x">>, "reg", Body(<<120>>, 1, <<>>))>>)
    ELSE Body(<<CharOrd(k[Len(k)])>>, 2, <<>>)

BucketKeys ==
    { <<"p", "/", "a">>, <<"p", "/", "s", "/", "b">>, <<"p", "/", "s", "/">>,
      <<"p", "/", "k">>, <<"p", "/", "n">>, <<"p", "/", "u">> }

\* What the destination of a restore holds beforehand: nothing (the
\* directory is missing) or an older file a.
RestoreDests == { {}, {Join(OutDir, <<"a">>)} }

OldBody == Body(<<1>>, 3, <<>>)

ExcludeSets == { {<<>>}, {<<"a">>}, {<<"s">>} }

InitBackup ==
    /\ op = "backup"
    /\ \E slash \in {<<>>, <<"/">>},
          file \in {<<>>, <<"a">>}, cz \in BOOLEAN, ts \in BOOLEAN, rec \in BOOLEAN,
          ig \in BOOLEAN, ex \in ExcludeSets :
          LET path == SrcDir \o slash
              dest == <<"p">> \o slash
          IN
          /\ ts => cz
          /\ raw = Flags(path, dest, file)
          /\ cfg = processPaths([Config(path, dest, file, rec) EXCEPT
                                   !.Compress = cz, !.Timestamp = ts,
                                   !.IgnoreErrors = ig, !.Exclude = ex])
    /\ \E F \in SubsetsUpTo(LocalFilePaths, MaxTree) :
          fs = MkFs({SrcDir, <<"d", "/", "e">>}, [p \in F |-> PlainBody(p)])
    /\ store = EmptyStore

\* A restore of the prefix p, given as "p", "p/" or "/p": every bucket of
\* at most MaxBucket objects.
InitRestoreMulti ==
    /\ \E pd \in { <<<<"p">>, OutDir>>, <<<<"p", "/">>, OutDir \o <<"/">>>>,
                    <<<<"/", "p">>, OutDir>> },
          dz \in BOOLEAN, force \in BOOLEAN, rec \in BOOLEAN, ig \in BOOLEAN,
          ex \in {{<<>>}, {<<"a">>}} :
          LET path == pd[1]
              dest == pd[2]
          IN
          /\ raw = Flags(path, dest, <<>>)
          /\ cfg = processPaths([Config(path, dest, <<>>, rec) EXCEPT
                                   !.Decompress = dz, !.Force = force,
                                   !.IgnoreErrors = ig, !.Exclude = ex])
    /\ \E K \in SubsetsUpTo(BucketKeys, MaxBucket) : store = [k \in K |-> BucketBody(k)]

\* A restore of one file of the prefix p: the bucket holds it or is empty.
InitRestoreSingle ==
    /\ \E path \in {<<"p">>, <<"/", "p">>}, file \in {<<"a">>, <<"k">>, <<"u">>, <<"v">>},
          dz \in BOOLEAN, force \in BOOLEAN, ig \in BOOLEAN :
          /\ raw = Flags(path, OutDir, file)
          /\ cfg = processPaths([Config(path, OutDir, file, FALSE) EXCEPT
                                   !.Decompress = dz, !.Force = force, !.IgnoreErrors = ig])
          /\ \E K \in {{}, {Join(<<"p">>, file)}} : store = [k \in K |-> BucketBody(k)]

\* A restore whose --path is "//p", "/" or missing, from a bucket that holds
\* p/a.
InitRestoreRoot ==
    /\ \E path \in {<<"/", "/", "p">>, <<"/">>, <<>>}, rec \in BOOLEAN :
          /\ raw = Flags(path, OutDir, <<>>)
          /\ cfg = processPaths(Config(path, OutDir, <<>>, rec))
    /\ store = [k \in {<<"p", "/", "a">>} |-> BucketBody(k)]

InitRestore ==
    /\ op = "restore"
    /\ InitRestoreMulti \/ InitRestoreSingle \/ InitRestoreRoot
    /\ \E O \in RestoreDests : fs = MkFs({}, [p \in O |-> OldBody])

Init ==
    /\ InitBackup \/ InitRestore
    /\ bad = {}
    /\ pc = "start"
    /\ files = <<>>
    /\ idx = 0
    /\ result = "none"
    /\ listReqs = <<>>
    /\ log = <<>>
    /\ lastDl = NoDl
    /\ stack = <<>>
    /\ now = 0

\* The end of a transfer loop: the position after item i of n, and whether
\* the operation returns.
Finished(err, i, n) == err \/ i >= n

\* Backup(): NewBackupManager, then the compressed backup, the single-file
\* upload or the enumeration of the local tree.
BackupStart ==
    /\ op = "backup" /\ pc = "start"
    /\ IF cfg.Compress THEN
          \E fault \in CompressFaults, putOk \in BOOLEAN :
            \E r \in {backupWithCompression(cfg, fs, store, now, fault, putOk)} :
            /\ fs' = r.fs /\ store' = r.store /\ log' = log \o r.evs
            /\ result' = IF r.err THEN "err" ELSE "ok"
            /\ pc' = "done"
            /\ UNCHANGED <<files, idx, bad>>
       ELSE IF cfg.File # <<>> THEN
          \E putOk \in BOOLEAN :
            \E r \in {uploadSingleFile(cfg, fs, store, putOk)} :
            /\ store' = r.store /\ log' = log \o r.evs
            /\ result' = IF r.err THEN "err" ELSE "ok"
            /\ pc' = "done"
            /\ UNCHANGED <<fs, files, idx, bad>>
       ELSE
          \E B \in {{}, {Abs(<<"d", "/", "s">>)}} :
            \E r \in {ListFiles(fs, B, cfg.Path, cfg.Recursive)} :
            /\ bad' = B
            /\ log' = log \o [i \in 1..Len(r.reads) |->
                                Ev("readdir", <<>>, r.reads[i],
                                   IF ReadDirOk(fs, B, r.reads[i]) THEN "ok" ELSE "err")]
            /\ files' = IF r.err THEN <<>> ELSE r.files
            /\ idx' = 1
            /\ result' = IF r.err THEN "err" ELSE IF r.files = <<>> THEN "ok" ELSE "none"
            /\ pc' = IF r.err \/ r.files = <<>> THEN "done" ELSE "upload"
            /\ UNCHANGED <<fs, store>>
    /\ UNCHANGED <<stack, raw, cfg, op, listReqs, lastDl, now>>

\* The upload loop going on after a failed upload when ignore-errors is set.
UploadStep_IgnoreErrors ==
    /\ op = "backup" /\ pc = "upload"
    /\ \E putOk \in BOOLEAN :
        \E r \in {processFileForUpload(cfg, fs, store, files[idx], putOk)} :
        LET abort == r.err /\ ~cfg.IgnoreErrors IN
        /\ store' = r.store
        /\ log' = log \o r.evs
        /\ idx' = idx + 1
        /\ pc' = IF Finished(abort, idx, Len(files)) THEN "done" ELSE "upload"
        /\ result' = IF abort THEN "err" ELSE IF idx >= Len(files) THEN "ok" ELSE "none"
    /\ UNCHANGED <<stack, raw, cfg, fs, bad, op, files, listReqs, lastDl, now>>

\* The upload loop reading a directory when it comes to its item, where
\* the enumeration should have read it.
UploadStep_WalkOnDemand ==
    /\ op = "backup" /\ pc = "upload"
    /\ \E putOk \in BOOLEAN :
        \E r \in {processFileForUpload(cfg, fs, store, files[idx], putOk)} :
        /\ store' = r.store
        /\ log' = log \o r.evs
                     \o (IF files[idx].IsDir
                         THEN <<Ev("readdir", <<>>, Join(cfg.Path, files[idx].Key), "ok")>>
                         ELSE <<>>)
        /\ idx' = idx + 1
        /\ pc' = IF Finished(r.err, idx, Len(files)) THEN "done" ELSE "upload"
        /\ result' = IF r.err THEN "err" ELSE IF idx >= Len(files) THEN "ok" ELSE "none"
    /\ UNCHANGED <<stack, raw, cfg, fs, bad, op, files, listReqs, lastDl, now>>

\* One turn of the loop of uploadMultipleFiles.
UploadStep ==
    /\ op = "backup" /\ pc = "upload"
    /\ \E putOk \in BOOLEAN :
        \E r \in {processFileForUpload(cfg, fs, store, files[idx], putOk)} :
        /\ store' = r.store
        /\ log' = log \o r.evs
        /\ idx' = idx + 1
        /\ pc' = IF Finished(r.err, idx, Len(files)) THEN "done" ELSE "upload"
        /\ result' = IF r.err THEN "err" ELSE IF idx >= Len(files) THEN "ok" ELSE "none"
    /\ UNCHANGED <<stack, raw, cfg, fs, bad, op, files, listReqs, lastDl, now>>

\* Restore() on a manager whose constructor leaves the leading '/' of the
\* path in place.
RestoreStart_KeepLeadingSlash ==
    /\ op = "restore" /\ pc = "start"
    /\ IF cfg.Path = <<>> THEN
            /\ result' = "panic" /\ pc' = "done"
            /\ UNCHANGED <<cfg, fs, files, idx, listReqs, log, lastDl>>
       ELSE LET c  == cfg
                mk == ~Exists(fs, c.Dest)
                f1 == IF mk /\ MkdirAllOk(fs, c.Dest) THEN MkdirAll(fs, c.Dest) ELSE fs
            IN
            /\ cfg' = c
            /\ IF mk /\ ~MkdirAllOk(fs, c.Dest) THEN
                    /\ result' = "err" /\ pc' = "done"
                    /\ UNCHANGED <<fs, files, idx, listReqs, log, lastDl>>
               ELSE IF c.File # <<>> THEN
                    \E getOk \in BOOLEAN :
                      \E r \in {restoreSingleFile(c, f1, store, getOk)} :
                      /\ fs' = r.fs /\ log' = log \o r.evs /\ lastDl' = r.dl
                      /\ result' = IF r.err THEN "err" ELSE "ok"
                      /\ pc' = "done"
                      /\ UNCHANGED <<files, idx, listReqs>>
               ELSE \E failAt \in 0..MaxListFail :
                      \E r \in {List(store, c.Path, c.Recursive, <<>>, failAt)} :
                      /\ fs' = f1
                      /\ listReqs' = r.reqs
                      /\ log' = log \o [i \in 1..Len(r.reqs) |->
                                      Ev("list", r.reqs[i].prefix, <<>>,
                                         IF i = failAt THEN "err" ELSE "ok")]
                      /\ files' = IF r.err THEN <<>> ELSE r.files
                      /\ idx' = 1
                      /\ result' = IF r.err THEN "err" ELSE IF r.files = <<>> THEN "ok" ELSE "none"
                      /\ pc' = IF r.err \/ r.files = <<>> THEN "done" ELSE "download"
                      /\ UNCHANGED lastDl
    /\ UNCHANGED <<stack, raw, bad, store, op, now>>

\* Restore(): NewRestoreManager, ensureDestinationExists, then the single
\* file or the enumeration of the prefix.
RestoreStart ==
    /\ op = "restore" /\ pc = "start"
    /\ IF cfg.Path = <<>> THEN
            /\ result' = "panic" /\ pc' = "done"
            /\ UNCHANGED <<cfg, fs, files, idx, listReqs, log, lastDl>>
       ELSE LET c  == IF cfg.Path[1] = "/" THEN [cfg EXCEPT !.Path = Tail(cfg.Path)] ELSE cfg
                mk == ~Exists(fs, c.Dest)
                f1 == IF mk /\ MkdirAllOk(fs, c.Dest) THEN MkdirAll(fs, c.Dest) ELSE fs
            IN
            /\ cfg' = c
            /\ IF mk /\ ~MkdirAllOk(fs, c.Dest) THEN
                    /\ result' = "err" /\ pc' = "done"
                    /\ UNCHANGED <<fs, files, idx, listReqs, log, lastDl>>
               ELSE IF c.File # <<>> THEN
                    \E getOk \in BOOLEAN :
                      \E r \in {restoreSingleFile(c, f1, store, getOk)} :
                      /\ fs' = r.fs /\ log' = log \o r.evs /\ lastDl' = r.dl
                      /\ result' = IF r.err THEN "err" ELSE "ok"
                      /\ pc' = "done"
                      /\ UNCHANGED <<files, idx, listReqs>>
               ELSE \E failAt \in 0..MaxListFail :
                      \E r \in {List(store, c.Path, c.Recursive, <<>>, failAt)} :
                      /\ fs' = f1
                      /\ listReqs' = r.reqs
                      /\ log' = log \o [i \in 1..Len(r.reqs) |->
                                      Ev("list", r.reqs[i].prefix, <<>>,
                                         IF i = failAt THEN "err" ELSE "ok")]
                      /\ files' = IF r.err THEN <<>> ELSE r.files
                      /\ idx' = 1
                      /\ result' = IF r.err THEN "err" ELSE IF r.files = <<>> THEN "ok" ELSE "none"
                      /\ pc' = IF r.err \/ r.files = <<>> THEN "done" ELSE "download"
                      /\ UNCHANGED lastDl
    /\ UNCHANGED <<stack, raw, bad, store, op, now>>

\* The download loop returning the first error whatever ignore-errors is.
DownloadStep_AlwaysAbort ==
    /\ op = "restore" /\ pc = "download"
    /\ \E getOk \in BOOLEAN :
        \E r \in {processFileForDownload(cfg, fs, store, files[idx], getOk)} :
        LET abort == r.err IN
        /\ fs' = r.fs
        /\ log' = log \o r.evs
        /\ lastDl' = r.dl
        /\ idx' = idx + 1
        /\ pc' = IF Finished(abort, idx, Len(files)) THEN "done" ELSE "download"
        /\ result' = IF abort THEN "err" ELSE IF idx >= Len(files) THEN "ok" ELSE "none"
    /\ UNCHANGED <<stack, raw, cfg, bad, store, op, files, listReqs, now>>

\* One turn of the loop of restoreMultipleFiles.
DownloadStep ==
    /\ op = "restore" /\ pc = "download"
    /\ \E getOk \in BOOLEAN :
        \E r \in {processFileForDownload(cfg, fs, store, files[idx], getOk)} :
        LET abort == r.err /\ ~cfg.IgnoreErrors IN
        /\ fs' = r.fs
        /\ log' = log \o r.evs
        /\ lastDl' = r.dl
        /\ idx' = idx + 1
        /\ pc' = IF Finished(abort, idx, Len(files)) THEN "done" ELSE "download"
        /\ result' = IF abort THEN "err" ELSE IF idx >= Len(files) THEN "ok" ELSE "none"
    /\ UNCHANGED <<stack, raw, cfg, bad, store, op, files, listReqs, now>>

Next == BackupStart \/ UploadStep \/ RestoreStart \/ DownloadStep

Spec == Init /\ [][Next]_vars

----------------------------------------------------------------------------
(* Properties of backup and restore.                                       *)

MultiBackup == op = "backup" /\ ~cfg.Compress /\ cfg.File = <<>>
MultiRestore == op = "restore" /\ cfg.File = <<>>

\* The enumeration of the operation has returned its items.
Enumerated == pc # "start" /\ (files # <<>> \/ result = "ok")

\* An item the transfer loop hands to Upload / Download.
Eligible(item) == Base(item.Key) \notin cfg.Exclude /\ ~item.IsDir

LogOf(evs) == SelectSeq(log, LAMBDA e : e.ev \in evs)

EligibleItems == SelectSeq(files, Eligible)

\* C3: in a multi-item restore with ignore-errors set, a failed download or
\* decompression does not stop the loop: Download is called for every
\* eligible item, in listing order, and Restore returns success; with
\* ignore-errors unset the failed call is the last call made and Restore
\* returns an error.
C3_RestoreErrorPolicy ==
    MultiRestore =>
        /\ (cfg.IgnoreErrors /\ pc = "done" /\ Enumerated) =>
              /\ result = "ok"
              /\ [i \in 1..Len(LogOf({"download"})) |-> LogOf({"download"})[i].key]
                   = [i \in 1..Len(EligibleItems) |-> EligibleItems[i].Key]
        /\ ~cfg.IgnoreErrors =>
              \A j \in 1..Len(log) :
                  (log[j].ev \in {"download", "decompress"} /\ log[j].st # "ok") =>
                      j = Len(log) /\ pc = "done" /\ result = "err"

\* A restore with ignore-errors that went on to a successful download after
\* a failed one and returned success.
C3_Witness ==
    /\ MultiRestore /\ cfg.IgnoreErrors /\ pc = "done" /\ result = "ok"
    /\ \E i, j \in 1..Len(log) :
          /\ i < j
          /\ log[i].ev = "download" /\ log[i].st = "err"
          /\ log[j].ev = "download" /\ log[j].st = "ok"

\* C4 (as claimed): a restore that met an unsupported archive entry returns
\* an error, whatever ignore-errors is, on the single-file and on the
\* multi-item path.
C4_UnsupportedEntryFatal ==
    (op = "restore" /\ pc = "done"
       /\ \E j \in 1..Len(log) : log[j].ev = "decompress" /\ log[j].st = "unsupported")
    => result = "err"

\* C5: a Download whose destination exists sends no GetObject, leaves the
\* content as it was and returns success when force is unset; when force is
\* set it sends the GetObject and, served, leaves the object's content.
C5_SkipOnExists ==
    (lastDl.called /\ lastDl.existed) =>
        /\ ~lastDl.force => (~lastDl.got /\ ~lastDl.err /\ lastDl.post = lastDl.pre)
        /\ lastDl.force => lastDl.got
        /\ (lastDl.force /\ ~lastDl.err) => lastDl.post = store[lastDl.key]

\* A Download without force that found an older file where the bucket holds
\* different content for the key.
C5_Witness ==
    /\ lastDl.called /\ lastDl.existed /\ ~lastDl.force
    /\ lastDl.pre = OldBody
    /\ lastDl.key \in DOMAIN store /\ store[lastDl.key] # OldBody

\* The keys an enumeration must return: the entries of the local tree below
\* Path (all of them, or the direct children), resp. the keys of the bucket
\* below the prefix.
LocalEntries ==
    IF cfg.Recursive
    THEN {Rel(Abs(cfg.Path), q) : q \in {x \in DOMAIN fs : HasPrefix(x, Abs(cfg.Path) \o <<"/">>)}}
    ELSE LocalChildren(fs, cfg.Path)

RemoteEntries ==
    IF cfg.Recursive
    THEN {k \in DOMAIN store : HasPrefix(k, SlashTerminated(cfg.Path)) /\ k # SlashTerminated(cfg.Path)}
    ELSE RemoteChildren(store, SlashTerminated(cfg.Path))

\* C6: in a multi-file backup and a multi-item restore no Upload / Download
\* is called and no request is sent for an item whose base name is in the
\* exclude list; the enumeration still holds the item, and an operation
\* that returns success has called Upload / Download for every item that
\* is neither excluded nor a directory.
C6_ExclusionFiltering ==
    /\ MultiBackup =>
        /\ \A i \in 1..Len(files) : Base(files[i].Key) \in cfg.Exclude =>
              \A j \in 1..Len(log) : log[j].ev \in {"upload", "put"} =>
                  log[j].path # Join(cfg.Path, files[i].Key)
        /\ Enumerated => \A k \in LocalEntries : Base(k) \in cfg.Exclude => k \in KeysOf(files)
        /\ (pc = "done" /\ result = "ok") =>
              \A i \in 1..Len(files) : Eligible(files[i]) =>
                  \E j \in 1..Len(log) :
                      log[j].ev = "upload" /\ log[j].path = Join(cfg.Path, files[i].Key)
    /\ MultiRestore =>
        /\ \A i \in 1..Len(files) : Base(files[i].Key) \in cfg.Exclude =>
              \A j \in 1..Len(log) : log[j].ev \in {"download", "get"} =>
                  log[j].key # files[i].Key
        /\ Enumerated => \A k \in RemoteEntries : Base(k) \in cfg.Exclude => k \in KeysOf(files)
        /\ (pc = "done" /\ result = "ok") =>
              \A i \in 1..Len(files) : Eligible(files[i]) =>
                  \E j \in 1..Len(log) : log[j].ev = "download" /\ log[j].key = files[i].Key

\* A finished backup whose enumeration held an excluded file next to a file
\* that was uploaded.
C6_Witness ==
    /\ MultiBackup /\ pc = "done" /\ result = "ok"
    /\ \E i, k \in 1..Len(files) :
          /\ Base(files[i].Key) \in cfg.Exclude /\ ~files[i].IsDir
          /\ Eligible(files[k])
          /\ \E j \in 1..Len(log) :
                log[j].ev = "put" /\ log[j].path = Join(cfg.Path, files[k].Key)

\* The object key of the file with relative path r.
DestKey(r) == IF cfg.Dest = <<>> THEN r ELSE cfg.Dest \o <<"/">> \o r

\* C7: a recursive multi-file backup without exclusions sends PutObject only
\* for regular files of the tree, each to the key Dest/<relative path> and
\* at most once, never for a directory; when it returns success it has sent
\* one for every regular file.
C7_BackupOneUploadPerFile ==
    (MultiBackup /\ cfg.Recursive /\ cfg.Exclude = {<<>>}) =>
        LET F    == FilesBelow(fs, cfg.Path, <<>>)
            puts == LogOf({"put"})
        IN  /\ \A j \in 1..Len(log) : log[j].ev \in {"put", "upload"} =>
                  \E r \in F : log[j].key = DestKey(r) /\ Abs(log[j].path) = Abs(Join(cfg.Path, r))
            /\ \A i, j \in 1..Len(puts) : puts[i].key = puts[j].key => i = j
            /\ (pc = "done" /\ result = "ok") =>
                  /\ {puts[j].key : j \in 1..Len(puts)} = {DestKey(r) : r \in F}
                  /\ DOMAIN store = {DestKey(r) : r \in F}

\* The backup of the tree {a, s/b} that ended with the two objects p/a and
\* p/s/b in the bucket.
C7_Witness ==
    /\ MultiBackup /\ cfg.Recursive /\ cfg.Exclude = {<<>>}
    /\ pc = "done" /\ result = "ok"
    /\ FilesBelow(fs, cfg.Path, <<>>) = {<<"a">>, <<"s", "/", "b">>}
    /\ DOMAIN store = {<<"p", "/", "a">>, <<"p", "/", "s", "/", "b">>}

\* C8: a backup with compression enumerates nothing, sends at most one
\* PutObject and, returning success, has sent exactly one: the archive, to
\* Dest/<base name of Path>.tar.gz when timestamp is off, holding (when its
\* writers closed without error) every file below Path whatever the
\* exclude list says.
C8_CompressedBackupOneUpload ==
    (op = "backup" /\ cfg.Compress /\ pc = "done") =>
        LET out  == generateOutputFilename(cfg, now)
            puts == LogOf({"put"})
            gz   == {q \in DOMAIN fs : ~fs[q].isDir /\ fs[q].data.head = GzipMagic}
        IN  /\ files = <<>> /\ LogOf({"readdir"}) = <<>>
            /\ Len(puts) <= 1
            /\ result = "ok" =>
                  /\ Len(puts) = 1
                  /\ gz \subseteq {Abs(out)}
                  /\ puts[1].path = out
                  /\ ~cfg.Timestamp => puts[1].key = cfg.Dest \o <<"/">> \o Base(cfg.Path) \o TarGz
                  /\ DOMAIN store = {puts[1].key}
                  /\ store[puts[1].key] = fs[Abs(out)].data
                  /\ LogOf({"close"}) = <<>> =>
                        /\ gz = {Abs(out)}
                        /\ {store[puts[1].key].entries[i].name : i \in 1..Len(store[puts[1].key].entries)}
                              = FilesBelow(fs, cfg.Path, out)

\* A compressed backup without timestamp that uploaded an archive holding a
\* file whose name is in the exclude list.
C8_Witness ==
    /\ op = "backup" /\ cfg.Compress /\ ~cfg.Timestamp /\ pc = "done" /\ result = "ok"
    /\ <<"a">> \in cfg.Exclude
    /\ \E k \in DOMAIN store : \E i \in 1..Len(store[k].entries) : store[k].entries[i].name = <<"a">>

\* C9: in a multi-file backup a failed Upload is the last call made: the
\* backup is over and has returned an error, whatever ignore-errors is.
C9_BackupAbortsOnFirstFailure ==
    MultiBackup =>
        \A j \in 1..Len(log) : (log[j].ev = "upload" /\ log[j].st = "err") =>
            j = Len(log) /\ pc = "done" /\ result = "err"

\* A backup with ignore-errors set that stopped at a failed upload with an
\* uploadable item still ahead.
C9_Witness ==
    /\ MultiBackup /\ cfg.IgnoreErrors /\ pc = "done" /\ result = "err"
    /\ log # <<>> /\ log[Len(log)].ev = "upload" /\ log[Len(log)].st = "err"
    /\ \E i \in idx..Len(files) : Eligible(files[i])

\* C12 (as claimed): a backup of the single file F with compression uploads
\* an archive that holds F and no other file of its directory.
C12_SingleFileCompressed ==
    (op = "backup" /\ cfg.Compress /\ raw.File # <<>> /\ pc = "done" /\ result = "ok") =>
        \A k \in DOMAIN store :
            {store[k].entries[i].name : i \in 1..Len(store[k].entries)} = {cfg.File}

\* The names of the directories on the way to the entry with relative path r.
DirNames(r) == LET segs == Split(r) IN {segs[i] : i \in 1..(Len(segs) - 1)} \ {<<>>}

\* C13 (as claimed): in a recursive backup or restore no Upload / Download
\* is called for a file that lies beneath a directory whose base name is in
\* the exclude list.
C13_ExcludedDirectorySubtree ==
    /\ (MultiBackup /\ cfg.Recursive) =>
          \A j \in 1..Len(log) : log[j].ev \in {"upload", "put"} =>
              DirNames(Rel(cfg.Path, log[j].path)) \cap cfg.Exclude = {}
    /\ (MultiRestore /\ cfg.Recursive) =>
          \A j \in 1..Len(log) : log[j].ev \in {"download", "get"} =>
              DirNames(removePrefix(log[j].key, SlashTerminated(cfg.Path))) \cap cfg.Exclude = {}

\* C14 (as claimed): a backup in which a step of the compression failed
\* (a step whose error compressDirectory returns, or a Close of the tar
\* writer, the gzip writer or the output file) returns an error and calls
\* no Upload.
C14_CompressionFailureFatal ==
    (op = "backup" /\ cfg.Compress /\ pc = "done"
       /\ \E j \in 1..Len(log) : log[j].ev \in {"compress", "close"} /\ log[j].st = "err")
    => (result = "err" /\ LogOf({"upload", "put"}) = <<>>)

\* C16: a restore of a single file sends no listing request and calls
\* Download exactly once; a failed download or decompression makes Restore
\* return an error, whatever ignore-errors is.
C16_SingleFileErrorsFatal ==
    (op = "restore" /\ cfg.File # <<>> /\ pc = "done") =>
        /\ listReqs = <<>> /\ LogOf({"list"}) = <<>>
        /\ Len(LogOf({"download"})) = 1
        /\ Len(LogOf({"get"})) <= 1
        /\ (\E j \in 1..Len(log) : log[j].ev \in {"download", "decompress"} /\ log[j].st # "ok")
              => result = "err"

\* A single-file restore with ignore-errors set that returned an error
\* because the decompression of the downloaded archive failed.
C16_Witness ==
    /\ op = "restore" /\ cfg.File # <<>> /\ cfg.IgnoreErrors /\ pc = "done" /\ result = "err"
    /\ LogOf({"download"}) # <<>> /\ LogOf({"download"})[1].st = "ok"
    /\ \E j \in 1..Len(log) : log[j].ev = "decompress" /\ log[j].st # "ok"

\* The source path of a restore as the claim describes it: one trailing '/'
\* removed, the directory part of --file joined on, one leading '/' removed.
NormalizedPath ==
    LET p1 == StripOne(raw.Path)
        p2 == IF NoFile THEN p1 ELSE Join(p1, Dir(raw.File))
    IN  IF p2 # <<>> /\ p2[1] = "/" THEN SubSeq(p2, 2, Len(p2)) ELSE p2

\* C17: no store call precedes the normalization of a restore; once the
\* restore manager exists its path is the flag value with one trailing '/'
\* and exactly one leading '/' removed, the first listing request asks for
\* that path, and every prefix listed and every key downloaded lies below
\* it (is the path joined with the file name when --file is given).
C17_RestoreNormalizedBeforeCalls ==
    op = "restore" =>
        /\ pc = "start" => (log = <<>> /\ listReqs = <<>>)
        /\ (pc # "start" /\ result # "panic") =>
              /\ cfg.Path = NormalizedPath
              /\ cfg.Dest = StripOne(raw.Dest)
        /\ listReqs # <<>> => listReqs[1].prefix = SlashTerminated(NormalizedPath)
        /\ \A j \in 1..Len(listReqs) :
              HasPrefix(listReqs[j].prefix, SlashTerminated(NormalizedPath))
        /\ \A j \in 1..Len(log) : log[j].ev \in {"download", "get", "list"} =>
              IF NoFile THEN HasPrefix(log[j].key, SlashTerminated(NormalizedPath))
              ELSE log[j].key = Join(NormalizedPath, Base(raw.File))

\* A restore of the path "/p" that listed the prefix "p/" and downloaded
\* p/a.
C17_Witness ==
    /\ op = "restore" /\ raw.Path = <<"/", "p">> /\ raw.File = <<>>
    /\ pc = "done" /\ result = "ok"
    /\ listReqs # <<>> /\ listReqs[1].prefix = <<"p", "/">>
    /\ \E j \in 1..Len(log) :
          log[j].ev = "download" /\ log[j].st = "ok" /\ log[j].key = <<"p", "/", "a">>

EnumEvents == {"readdir", "list"}
TransferEvents == {"upload", "put", "download", "get", "decompress"}

\* No enumeration call comes after a transfer call.
EnumBeforeTransfer ==
    \A i, j \in 1..Len(log) :
        (i < j /\ log[i].ev \in TransferEvents) => log[j].ev \notin EnumEvents

\* A step of a multi-item operation: from start to the transfer loop or the
\* end, from the loop to the loop or the end, never out of the end; in
\* the loop the enumeration result and the requests sent for it stay.
EnumThenTransferStep ==
    (MultiBackup \/ MultiRestore) =>
        /\ pc # "done"
        /\ pc = "start" => pc' \in {"upload", "download", "done"}
        /\ pc \in {"upload", "download"} =>
              /\ pc' \in {pc, "done"}
              /\ files' = files /\ listReqs' = listReqs
              /\ SelectSeq(log', LAMBDA e : e.ev \in EnumEvents)
                    = SelectSeq(log, LAMBDA e : e.ev \in EnumEvents)

\* C19: a multi-item backup or restore makes every enumeration call (each
\* directory read, each list request of each prefix) before its first
\* transfer call and goes Start -> Enumerate -> PerItemTransfer* -> Done
\* without a step back.
C19_EnumerateThenTransfer ==
    /\ []((MultiBackup \/ MultiRestore) => (EnumBeforeTransfer /\ (pc = "start" => log = <<>>)))
    /\ [][EnumThenTransferStep]_vars

\* A recursive restore that listed a sub-prefix after the pages of the
\* prefix and then downloaded an object.
C19_Witness ==
    /\ MultiRestore /\ cfg.Recursive /\ pc = "done" /\ result = "ok"
    /\ \E n \in 2..Len(listReqs) : listReqs[n].prefix # listReqs[1].prefix
    /\ \E j \in 1..Len(log) : log[j].ev = "get" /\ log[j].st = "ok"

\* C20: when a directory read of the backup enumeration or a list request
\* of the restore enumeration (any page, any sub-prefix) fails, the
\* operation ends with an error and makes no upload and no download,
\* with and without ignore-errors, whatever was listed before the failure.
C20_EnumerationFailureFatal ==
    ((MultiBackup \/ MultiRestore)
       /\ \E j \in 1..Len(log) : log[j].ev \in EnumEvents /\ log[j].st = "err")
    => /\ pc = "done" /\ result = "err"
       /\ LogOf(TransferEvents) = <<>>
       /\ files = <<>>

\* A recursive restore with ignore-errors whose first request listed a
\* folder and whose request for that folder failed.
C20_Witness ==
    /\ MultiRestore /\ cfg.Recursive /\ cfg.IgnoreErrors /\ result = "err"
    /\ Len(log) = 2 /\ log[1].ev = "list" /\ log[1].st = "ok"
    /\ log[2].ev = "list" /\ log[2].st = "err" /\ log[2].key # log[1].key

\* The directory markers of the bucket below the listed prefix.
MarkersBelow(path) ==
    {k \in DOMAIN store : /\ store[k].size = 0 /\ HasSuffix(k, <<"/">>)
                          /\ HasPrefix(k, path) /\ k # path}

\* The listings started with prefix k: the requests for k without a token.
ListingsOf(k) == {n \in 1..Len(listReqs) : listReqs[n].prefix = k /\ listReqs[n].token = NoToken}

\* C22 (as claimed): one recursive List call starts exactly one nested
\* listing for every directory marker below its prefix, markers nested in
\* one another included.
C22_OneListingPerMarker ==
    (op = "rlist" /\ pc = "done" /\ result = "ok" /\ cfg.Recursive) =>
        \A k \in MarkersBelow(SlashTerminated(cfg.Path)) : Cardinality(ListingsOf(k)) = 1

\* The entries of the archive compressDirectory wrote.
ArchiveEntries == fs[Abs(generateOutputFilename(cfg, now))].data.entries

\* C24: the archive compressDirectory writes holds one entry for every
\* entry below sourceDir that is not a directory and not the output file,
\* named by its path relative to sourceDir, and no other entry: none for
\* the output file, none for a directory, none twice.
C24_ArchiveEntrySet ==
    (op = "codec" /\ pc \in {"packed", "done"}) =>
        /\ {ArchiveEntries[i].name : i \in 1..Len(ArchiveEntries)}
              = FilesBelow(fs, cfg.Path, generateOutputFilename(cfg, now))
        /\ \A i, j \in 1..Len(ArchiveEntries) :
              ArchiveEntries[i].name = ArchiveEntries[j].name => i = j
        /\ \A i \in 1..Len(ArchiveEntries) :
              /\ ArchiveEntries[i].typeflag = "reg"
              /\ IsFileAt(fs, Join(cfg.Path, ArchiveEntries[i].name))
              /\ Abs(Join(cfg.Path, ArchiveEntries[i].name)) # Abs(generateOutputFilename(cfg, now))

\* An archive of a tree three levels deep that holds an empty directory.
C24_Witness ==
    /\ op = "codec" /\ pc = "packed"
    /\ \E i, j \in 1..Len(ArchiveEntries) :
          /\ ArchiveEntries[i].name = <<"a">>
          /\ ArchiveEntries[j].name = <<"s", "/", "t", "/", "c">>
    /\ IsDirAt(fs, <<"d", "/", "e">>)
    /\ IsFileAt(fs, generateOutputFilename(cfg, now))

\* C25 (as claimed): without --force no step of a restore changes or removes
\* a file the destination held before the restore started, whether the
\* step downloads or decompresses.  The files of the destination at the
\* start are the ones holding OldBody, which no object and no archive entry
\* holds.
C25_NoClobberWithoutForce ==
    [][(op = "restore" /\ ~cfg.Force) =>
          \A p \in DOMAIN fs :
              (~fs[p].isDir /\ fs[p].data = OldBody) => (p \in DOMAIN fs' /\ fs'[p] = fs[p])]_vars

\* C26 (as claimed): after a Download that returned an error for a
\* destination that did not exist before, the destination does not exist.
C26_FailedDownloadLeavesNoFile ==
    (op = "restore" /\ lastDl.called /\ lastDl.err /\ ~lastDl.existed)
        => ~Exists(fs, lastDl.dest)

----------------------------------------------------------------------------
(* A backup followed by a restore of what it uploaded: the recursive,      *)
(* non-compressed backup of the tree d to the prefix given with --dest,    *)
(* then the recursive restore of that prefix into the missing directory o. *)

\* The prefix as the two command lines give it.
TripPrefixes == { <<"p">>, <<"p", "/">>, <<"/", "p">> }

InitTrip ==
    /\ op = "backup"
    /\ \E d \in TripPrefixes :
          /\ raw = Flags(SrcDir, d, <<>>)
          /\ cfg = processPaths(Config(SrcDir, d, <<>>, TRUE))
    /\ \E F \in SubsetsUpTo(LocalFilePaths, MaxTree) :
          fs = MkFs({SrcDir, <<"d", "/", "e">>}, [p \in F |-> PlainBody(p)])
    /\ store = EmptyStore
    /\ bad = {}
    /\ pc = "start"
    /\ files = <<>>
    /\ idx = 0
    /\ result = "none"
    /\ listReqs = <<>>
    /\ log = <<>>
    /\ lastDl = NoDl
    /\ stack = <<>>
    /\ now = 0

\* The second command line, once the backup has returned success: NewConfig
\* for restore --path <prefix> --dest o --recursive.
TripRestore ==
    /\ op = "backup" /\ pc = "done" /\ result = "ok"
    /\ op' = "restore"
    /\ raw' = Flags(raw.Dest, OutDir, <<>>)
    /\ cfg' = processPaths(Config(raw.Dest, OutDir, <<>>, TRUE))
    /\ pc' = "start"
    /\ files' = <<>>
    /\ idx' = 0
    /\ result' = "none"
    /\ bad' = {}
    /\ UNCHANGED <<stack, fs, store, listReqs, log, lastDl, now>>

NextTrip == BackupStart \/ UploadStep \/ TripRestore \/ RestoreStart \/ DownloadStep

SpecTrip == InitTrip /\ [][NextTrip]_vars

\* The keys of the calls evs that succeeded.
KeysDone(evs) == {e.key : e \in {log[j] : j \in {n \in 1..Len(log) : log[n].ev \in evs /\ log[n].st = "ok"}}}

\* C27 (as claimed): when the backup to the prefix and the restore of the
\* same prefix both return success, the restore has fetched every object
\* the backup put and the restored directory holds exactly the files of the
\* tree, at the same relative paths with the same content.
C27_BackupRestoreRoundTrip ==
    (op = "restore" /\ pc = "done" /\ result = "ok") =>
        /\ KeysDone({"put"}) \subseteq KeysDone({"get"})
        /\ FilesBelow(fs, OutDir, <<>>) = FilesBelow(fs, SrcDir, <<>>)
        /\ \A r \in FilesBelow(fs, SrcDir, <<>>) :
              fs[Abs(Join(OutDir, r))].data = fs[Abs(Join(SrcDir, r))].data

\* Path q is dir or lies below it.
Within(q, dir) == q = Abs(dir) \/ HasPrefix(q, Abs(dir) \o <<"/">>)

\* C28 (as claimed): a restore, decompression included, creates files and
\* directories only within the destination directory: every node of the
\* file system is the destination, lies below it or is a directory above it.
C28_DecompressWithinDest ==
    op = "restore" =>
        \A q \in DOMAIN fs : Within(q, cfg.Dest) \/ q \in Ancestors(Abs(cfg.Dest))

----------------------------------------------------------------------------
(* The compressed backup of one directory run again and again, the clock   *)
(* standing still or moving on between two runs.                           *)

MaxRuns == 2

InitRepeat ==
    /\ op = "backup"
    /\ \E ts \in BOOLEAN :
          /\ raw = Flags(SrcDir, <<"p">>, <<>>)
          /\ cfg = processPaths([Config(SrcDir, <<"p">>, <<>>, FALSE) EXCEPT
                                   !.Compress = TRUE, !.Timestamp = ts])
    /\ \E F \in SubsetsUpTo(LocalFilePaths, MaxTree) :
          fs = MkFs({SrcDir, <<"d", "/", "e">>}, [p \in F |-> PlainBody(p)])
    /\ store = EmptyStore
    /\ bad = {}
    /\ pc = "start"
    /\ files = <<>>
    /\ idx = 0
    /\ result = "none"
    /\ listReqs = <<>>
    /\ log = <<>>
    /\ lastDl = NoDl
    /\ stack = <<>>
    /\ now = 0

\* The same command line once more; idx counts the runs that came before.
RunAgain ==
    /\ op = "backup" /\ pc = "done" /\ idx < MaxRuns
    /\ idx' = idx + 1
    /\ \E dt \in {0, 1} : now' = now + dt
    /\ pc' = "start"
    /\ result' = "none"
    /\ UNCHANGED <<stack, raw, cfg, fs, bad, store, op, files, listReqs, log, lastDl>>

NextRepeat == BackupStart \/ RunAgain

SpecRepeat == InitRepeat /\ [][NextRepeat]_vars

\* The files of the source directory that are not archives: the tree as
\* it was before the first run.
TreeFiles ==
    {r \in FilesBelow(fs, cfg.Path, <<>>) : fs[Abs(Join(cfg.Path, r))].data.head # GzipMagic}

\* C29 (as claimed): every compressed backup of the unchanged directory
\* that succeeds writes an archive with the entries of the first run, the
\* files of the tree; no archive of an earlier run is an entry.
C29_RepeatedBackupStable ==
    (op = "backup" /\ pc = "done" /\ result = "ok" /\ LogOf({"close"}) = <<>>) =>
        {ArchiveEntries[i].name : i \in 1..Len(ArchiveEntries)} = TreeFiles

\* C30 (as claimed): whatever --path is, the empty string included, the
\* construction of the restore manager ends without a runtime fault: the
\* restore goes on or returns an error.
C30_RestoreNormalizationTotal ==
    op = "restore" => result \in {"none", "ok", "err"}

====
